---- MODULE Spec2Model ----
(***************************************************************************)
(* SpendLens: the expense record store (ExcelStorage), the orchestrator    *)
(* (ExpenseController) and the operations that read and write the backing  *)
(* spreadsheet, modelled from src/src/logic.py and src/src/models.py.      *)
(*                                                                         *)
(* A date-time is a number of half-days: t \div 2 is the calendar day and  *)
(* t % 2 the time of day (0 = midnight).  strftime("%Y-%m-%d") keeps the   *)
(* day only; strptime gives midnight of the day.                           *)
(***************************************************************************)
EXTENDS Integers, Sequences, FiniteSets, TLC

\* ------------------------------------------------------------------ bounds
\* Most rows a backing file holds: add_expense is not offered beyond it.
MaxRows == 2
\* Most rows of a file that exists before the store is constructed.
MaxInitRows == 2
\* Most records of a list handed to save_expenses directly.
MaxSave == 2
\* Date-times run over 0 .. MaxTime half-days.
MaxTime == 2
\* Exports onto the store's own path are counted up to MaxExports.
MaxExports == 2
\* Significant bits of a float in the model (53 in the program): whole
\* numbers up to 2 ^ MaxExactBits add without rounding.
MaxExactBits == 18
\* Longest list handed to the analyzer.
MaxList == 3

Times == 0 .. MaxTime

\* ---------------------------------------------------------------- values
\* pandas' missing value: what an empty cell reads back as.
NaN == "NaN"

\* Category labels of the model: two ordinary ones, the empty label and the
\* reserved label in three letter cases.
Categories == {"Food", "Gas", "", "TOTAL", "Total", "total"}

\* str.upper() on the labels of the model.
Upper(s) ==
    CASE s = "total" -> "TOTAL"
      [] s = "Total" -> "TOTAL"
      [] s = "Food" -> "FOOD"
      [] s = "Gas" -> "GAS"
      [] OTHER -> s

Amounts == {1, 2}

NotesTexts == {"", "lunch"}

\* models.Expense: date (a date-time), category, amount, notes.
Expense(d, c, a, n) == [date |-> d, category |-> c, amount |-> a, notes |-> n]

\* ------------------------------------------------------------ date cells
\* A Date/Time cell of the sheet: text in YYYY-MM-DD form (kind "ymd", the
\* day it names), any other text (kind "text"), or a cell that is not text
\* (kind "other": empty, a number, a spreadsheet date).
YmdCell(day) == [kind |-> "ymd", day |-> day]
BadTextCell == [kind |-> "text", day |-> 0]
NonTextCell == [kind |-> "other", day |-> 0]

\* strftime that names the day after.
Strftime_DayOff(t) == YmdCell(t \div 2 + 1)

\* date.strftime("%Y-%m-%d")
Strftime(t) == YmdCell(t \div 2)

\* datetime.strptime(date_str, "%Y-%m-%d"): midnight of the day; ValueError
\* (exc) for text in any other form.
Strptime(cell) ==
    IF cell.kind = "ymd" THEN [exc |-> FALSE, val |-> cell.day * 2]
    ELSE [exc |-> TRUE, val |-> 0]

\* ---------------------------------------------------------------- models
\* Expense.to_dict: the row handed to the DataFrame.
ToDict(e) ==
    [date |-> Strftime(e.date), category |-> e.category,
     amount |-> e.amount, notes |-> e.notes]

\* Expense.from_dict, at instant now: a text date is parsed (and may raise),
\* any other date cell becomes datetime.now().
FromDict(row, now) ==
    LET d == IF row.date.kind \in {"ymd", "text"} THEN Strptime(row.date)
             ELSE [exc |-> FALSE, val |-> now]
    IN [exc |-> d.exc,
        val |-> Expense(d.val, row.category, row.amount, row.notes)]

\* ------------------------------------------------------------- the files
\* A file: absent, unreadable (not a workbook, or a write that stopped part
\* way), or a sheet.  DataFrame([]) has no columns, so the sheet written for
\* the empty list has no header row.
Absent == [kind |-> "absent", header |-> FALSE, rows |-> <<>>]
Unreadable == [kind |-> "unreadable", header |-> FALSE, rows |-> <<>>]
Sheet(rows) == [kind |-> "sheet", header |-> Len(rows) > 0, rows |-> rows]

\* A text cell as the workbook keeps it: the missing value is written as an
\* empty cell (na_rep), and so is the empty string.
WriteCell(v) == IF v = NaN THEN "" ELSE v

\* A text cell as read_excel returns it: an empty cell is the missing value.
ReadCell(v) == IF v = "" THEN NaN ELSE v

\* pd.DataFrame(data).to_excel(path, index=False)
ToExcel(dicts) ==
    Sheet([i \in 1 .. Len(dicts) |->
            [date |-> dicts[i].date,
             category |-> WriteCell(dicts[i].category),
             amount |-> dicts[i].amount,
             notes |-> WriteCell(dicts[i].notes)]])

\* pd.read_excel(path): raises on a file that is no workbook.
ReadExcel(f) ==
    [exc |-> f.kind # "sheet",
     header |-> f.header,
     rows |-> [i \in 1 .. Len(f.rows) |->
                [date |-> f.rows[i].date,
                 category |-> ReadCell(f.rows[i].category),
                 amount |-> f.rows[i].amount,
                 notes |-> ReadCell(f.rows[i].notes)]]]

\* KeepRow without the test for the reserved label.
KeepRow_NotNaOnly(r) == r.category # NaN

\* ------------------------------------------------------------ ExcelStorage
\* KeepRow comparing the label as written, without str.upper().
KeepRow_CaseSensitive(r) == r.category # NaN /\ r.category # "TOTAL"

\* The rows load_expenses keeps: a category that is present and is not the
\* reserved label in any letter case.
KeepRow(r) == r.category # NaN /\ Upper(r.category) # "TOTAL"

\* df[(df["Category"].notna()) & (df["Category"].str.upper() != "TOTAL")]:
\* KeyError without a Category column; AttributeError (.str) on a column
\* that holds no text at all.
CategoryFilter(df) ==
    [exc |-> \/ ~df.header
             \/ /\ Len(df.rows) > 0
                /\ \A i \in 1 .. Len(df.rows) : df.rows[i].category = NaN,
     rows |-> SelectSeq(df.rows, KeepRow)]

\* The try block of load_expenses: read, filter, then from_dict row by row.
\* exc: an exception left the block.
LoadTry(f, now) ==
    LET df == ReadExcel(f)
        flt == CategoryFilter(df)
        parsed == [i \in 1 .. Len(flt.rows) |-> FromDict(flt.rows[i], now)]
    IN IF df.exc \/ flt.exc \/ \E i \in 1 .. Len(parsed) : parsed[i].exc
       THEN [exc |-> TRUE, val |-> <<>>]
       ELSE [exc |-> FALSE, val |-> [i \in 1 .. Len(parsed) |-> parsed[i].val]]

\* load_expenses without its except clause: the exception reaches the caller.
LoadExpenses_NoCatch(f, now) ==
    IF f.kind = "absent" THEN [raised |-> FALSE, val |-> <<>>]
    ELSE LET b == LoadTry(f, now) IN [raised |-> b.exc, val |-> b.val]

\* ExcelStorage.load_expenses: [] for a file that does not exist, and [] for
\* every exception of the try block (except Exception: return []).
LoadExpenses(f, now) ==
    IF f.kind = "absent" THEN [raised |-> FALSE, val |-> <<>>]
    ELSE LET b == LoadTry(f, now)
         IN IF b.exc THEN [raised |-> FALSE, val |-> <<>>]
            ELSE [raised |-> FALSE, val |-> b.val]

\* How a write of the file may go: it succeeds, it fails before the file is
\* opened for writing (the file is as before), or it fails after (the file
\* is left unreadable).
Faults == {"none", "early", "torn"}

\* What a file is after a write of sheet s that goes as fault says.
WriteFile(f, s, fault) ==
    CASE fault = "none" -> s
      [] fault = "early" -> f
      [] OTHER -> Unreadable

\* save_expenses that keeps the rows the file already holds.
SaveExpenses_Merge(f, expenses, fault) ==
    LET all == LoadExpenses(f, 0).val \o expenses
    IN [raised |-> fault # "none",
        file |-> WriteFile(f, ToExcel([i \in 1 .. Len(all) |-> ToDict(all[i])]), fault)]

\* save_expenses that logs a failure and returns.
SaveExpenses_Swallow(f, expenses, fault) ==
    [raised |-> FALSE,
     file |-> WriteFile(f, ToExcel([i \in 1 .. Len(expenses) |-> ToDict(expenses[i])]), fault)]

\* ExcelStorage.save_expenses: the whole file is replaced by the rows of the
\* list; a failure is logged and raised again.
SaveExpenses(f, expenses, fault) ==
    [raised |-> fault # "none",
     file |-> WriteFile(f, ToExcel([i \in 1 .. Len(expenses) |-> ToDict(expenses[i])]), fault)]

\* The new record put first in the list.
WithAppended_First(l, e) == <<e>> \o l

\* expenses.append(expense)
WithAppended(l, e) == Append(l, e)

\* add_expense that puts the new record first.
AddExpense_Prepend(f, e, now, fault) ==
    LET l == LoadExpenses(f, now)
    IN IF l.raised THEN [raised |-> TRUE, file |-> f]
       ELSE SaveExpenses(f, <<e>> \o l.val, fault)

\* ExcelStorage.add_expense: load, append, save.
AddExpense(f, e, now, fault) ==
    LET l == LoadExpenses(f, now)
    IN IF l.raised THEN [raised |-> TRUE, file |-> f]
       ELSE SaveExpenses(f, WithAppended(l.val, e), fault)

\* clear_all that leaves the file alone.
ClearAll_Noop(f, fault) == [raised |-> FALSE, file |-> f]

\* ExcelStorage.clear_all
ClearAll(f, fault) == SaveExpenses(f, <<>>, fault)

\* ------------------------------------------------------------ ExpenseParser
\* Amounts are counted in hundredths (cents): float("12.5") is 1250.
\* A text is named by its string; Chars gives its characters, which is what
\* the parser works on.
Texts ==
    {"", "tea", "two", "Two", "$5", "$1,234.56", "a12", "12kg",
     "a$5", "9.999", "5 for $50", "25 and 30", "3.5", "-4", "x1 2", "1.55x",
     "7 yesterday", "last 3", "next 8",
     "twenty dollars", "twenty five dollars", "Twenty five", "two 5",
     "a12 two", "tomorrow yesterday", "Tomorrow next", "next last", "2 ago",
     "$0"}

\* What a caller may hand over in place of a text: None, and a value that is
\* neither a text nor false (the int 123).
NoneInput == "<None>"
NumberInput == "<123>"

ParserInputs == Texts \cup {NoneInput, NumberInput}

\* "not text": the empty string and None.
Falsy(t) == t \in {"", NoneInput}

\* The input has the methods of str (replace, lower).
IsStr(t) == t \in Texts

\* The characters of a text; none for an input that is no text.
Chars(t) ==
    CASE t = "" -> <<>>
      [] t = "tea" -> <<"t", "e", "a">>
      [] t = "two" -> <<"t", "w", "o">>
      [] t = "Two" -> <<"T", "w", "o">>
      [] t = "$5" -> <<"$", "5">>
      [] t = "$1,234.56" -> <<"$", "1", ",", "2", "3", "4", ".", "5", "6">>
      [] t = "a12" -> <<"a", "1", "2">>
      [] t = "12kg" -> <<"1", "2", "k", "g">>
      [] t = "a$5" -> <<"a", "$", "5">>
      [] t = "9.999" -> <<"9", ".", "9", "9", "9">>
      [] t = "5 for $50" -> <<"5", " ", "f", "o", "r", " ", "$", "5", "0">>
      [] t = "25 and 30" -> <<"2", "5", " ", "a", "n", "d", " ", "3", "0">>
      [] t = "3.5" -> <<"3", ".", "5">>
      [] t = "-4" -> <<"-", "4">>
      [] t = "x1 2" -> <<"x", "1", " ", "2">>
      [] t = "1.55x" -> <<"1", ".", "5", "5", "x">>
      [] t = "7 yesterday" -> <<"7", " ", "y", "e", "s", "t", "e", "r", "d", "a", "y">>
      [] t = "last 3" -> <<"l", "a", "s", "t", " ", "3">>
      [] t = "next 8" -> <<"n", "e", "x", "t", " ", "8">>
      [] t = "twenty dollars" ->
             <<"t", "w", "e", "n", "t", "y", " ", "d", "o", "l", "l", "a", "r", "s">>
      [] t = "twenty five dollars" ->
             <<"t", "w", "e", "n", "t", "y", " ", "f", "i", "v", "e", " ",
               "d", "o", "l", "l", "a", "r", "s">>
      [] t = "Twenty five" ->
             <<"T", "w", "e", "n", "t", "y", " ", "f", "i", "v", "e">>
      [] t = "two 5" -> <<"t", "w", "o", " ", "5">>
      [] t = "a12 two" -> <<"a", "1", "2", " ", "t", "w", "o">>
      [] t = "tomorrow yesterday" ->
             <<"t", "o", "m", "o", "r", "r", "o", "w", " ",
               "y", "e", "s", "t", "e", "r", "d", "a", "y">>
      [] t = "Tomorrow next" ->
             <<"T", "o", "m", "o", "r", "r", "o", "w", " ", "n", "e", "x", "t">>
      [] t = "next last" -> <<"n", "e", "x", "t", " ", "l", "a", "s", "t">>
      [] t = "2 ago" -> <<"2", " ", "a", "g", "o">>
      [] t = "$0" -> <<"$", "0">>
      [] OTHER -> <<>>

Digits == {"0", "1", "2", "3", "4", "5", "6", "7", "8", "9"}

DigitVal(c) ==
    CASE c = "0" -> 0 [] c = "1" -> 1 [] c = "2" -> 2 [] c = "3" -> 3
      [] c = "4" -> 4 [] c = "5" -> 5 [] c = "6" -> 6 [] c = "7" -> 7
      [] c = "8" -> 8 [] c = "9" -> 9

\* str.lower() on one character.
Lower(c) == CASE c = "T" -> "t" [] OTHER -> c

\* \w of the regular expression: letters, digits and the underscore.
IsWordChar(c) == c \notin {" ", ".", ",", "$", "-"}

\* text.replace(",", "").replace("$", "").lower()
TextClean(cs) ==
    LET kept == SelectSeq(cs, LAMBDA c : c \notin {",", "$"})
    IN [i \in 1 .. Len(kept) |-> Lower(kept[i])]

IsDigitAt(s, i) == i >= 1 /\ i <= Len(s) /\ s[i] \in Digits
IsWordAt(s, i) == i >= 1 /\ i <= Len(s) /\ IsWordChar(s[i])

\* \b holds between the characters at i - 1 and i.
Boundary(s, i) == IsWordAt(s, i - 1) # IsWordAt(s, i)

\* Where the run of digits that starts at i ends.
RECURSIVE DigitsEnd(_, _)
DigitsEnd(s, i) == IF IsDigitAt(s, i + 1) THEN DigitsEnd(s, i + 1) ELSE i

\* parse_amount without the word boundaries: the leftmost run of digits
\* with its decimals.
MatchEnd_NoBoundary(s, i) ==
    IF ~(IsDigitAt(s, i) /\ ~IsDigitAt(s, i - 1)) THEN 0
    ELSE LET j == DigitsEnd(s, i)
             dot == j + 1 <= Len(s) /\ s[j + 1] = "."
         IN IF dot /\ IsDigitAt(s, j + 2) /\ IsDigitAt(s, j + 3) THEN j + 3
            ELSE IF dot /\ IsDigitAt(s, j + 2) THEN j + 2
            ELSE j

\* Where a match of \b(\d+(?:\.\d{1,2})?)\b that starts at i ends, 0 when
\* there is none: the digits, then two decimals, one decimal or none, in
\* that order of preference, with \b on both sides.
MatchEnd(s, i) ==
    IF ~(IsDigitAt(s, i) /\ Boundary(s, i)) THEN 0
    ELSE LET j == DigitsEnd(s, i)
             dot == j + 1 <= Len(s) /\ s[j + 1] = "."
         IN IF dot /\ IsDigitAt(s, j + 2) /\ IsDigitAt(s, j + 3) /\ Boundary(s, j + 4)
            THEN j + 3
            ELSE IF dot /\ IsDigitAt(s, j + 2) /\ Boundary(s, j + 3)
            THEN j + 2
            ELSE IF Boundary(s, j + 1) THEN j ELSE 0

\* int() of a run of digits.
RECURSIVE DigitsValue(_, _, _)
DigitsValue(s, i, j) ==
    IF j < i THEN 0 ELSE DigitsValue(s, i, j - 1) * 10 + DigitVal(s[j])

\* float(match.group(1)), in hundredths, of the match from i to e.
MatchValue(s, i, e) ==
    LET j == DigitsEnd(s, i)
    IN DigitsValue(s, i, j) * 100
         + (IF e = j + 2 THEN DigitVal(s[e]) * 10
            ELSE IF e = j + 3 THEN DigitVal(s[e - 1]) * 10 + DigitVal(s[e])
            ELSE 0)

\* re.search that takes the rightmost match.
SearchStart_Last(s) ==
    LET starts == {i \in 1 .. Len(s) : MatchEnd(s, i) > 0}
    IN IF starts = {} THEN 0 ELSE CHOOSE i \in starts : \A k \in starts : i >= k

\* re.search: the leftmost position with a match, 0 when there is none.
SearchStart(s) ==
    LET starts == {i \in 1 .. Len(s) : MatchEnd(s, i) > 0}
    IN IF starts = {} THEN 0 ELSE CHOOSE i \in starts : \A k \in starts : i <= k

\* number_sentence.replace('-', ' ').split() of w2n: the words of s from
\* position i on, cur being the word begun.
RECURSIVE SplitWords(_, _, _)
SplitWords(s, i, cur) ==
    LET ended == IF cur = <<>> THEN <<>> ELSE <<cur>>
    IN IF i > Len(s) THEN ended
       ELSE IF s[i] \in {" ", "-"} THEN ended \o SplitWords(s, i + 1, <<>>)
       ELSE SplitWords(s, i + 1, Append(cur, s[i]))

\* w2n's table of number words, as far as the texts of the model use it;
\* -1 for a word that is not in it.
NumberWord(w) ==
    CASE w = <<"t", "w", "o">> -> 2
      [] w = <<"f", "i", "v", "e">> -> 5
      [] w = <<"t", "w", "e", "n", "t", "y">> -> 20
      [] OTHER -> 0 - 1

\* w2n's number_formation for the number words of a text below a thousand.
NumberFormation(n) ==
    CASE Len(n) = 4 -> n[1] * n[2] + n[3] + n[4]
      [] Len(n) = 3 -> n[1] * n[2] + n[3]
      [] Len(n) = 2 -> IF 100 \in {n[1], n[2]} THEN n[1] * n[2] ELSE n[1] + n[2]
      [] OTHER -> n[1]

\* w2n.word_to_num: the words that are number words are kept and combined,
\* ValueError for a text without any.  The value is in hundredths.
WordToNum(s) ==
    LET words == SplitWords(s, 1, <<>>)
        clean == SelectSeq(words, LAMBDA w : NumberWord(w) >= 0)
        numbers == [i \in 1 .. Len(clean) |-> NumberWord(clean[i])]
    IN IF Len(clean) = 0 THEN [exc |-> TRUE, val |-> 0]
       ELSE [exc |-> FALSE, val |-> NumberFormation(numbers) * 100]

\* parse_amount that reads a minus sign before the number.
ParseAmount_Signed(t) ==
    IF t = "" THEN 0
    ELSE LET s == TextClean(Chars(t))
             i == SearchStart(s)
             v == MatchValue(s, i, MatchEnd(s, i))
         IN IF i = 0 THEN 0
            ELSE IF i > 1 /\ s[i - 1] = "-" THEN 0 - v ELSE v

\* parse_amount that tries the number words before the digits.
ParseAmountRun_WordsFirst(t) ==
    IF Falsy(t) \/ ~IsStr(t) THEN [val |-> 0, w2n |-> FALSE]
    ELSE LET s == TextClean(Chars(t))
             i == SearchStart(s)
             w == WordToNum(s)
         IN IF ~w.exc THEN [val |-> w.val, w2n |-> TRUE]
            ELSE IF i > 0 THEN [val |-> MatchValue(s, i, MatchEnd(s, i)), w2n |-> TRUE]
            ELSE [val |-> 0, w2n |-> TRUE]

\* One run of parse_amount: the value returned (val) and whether
\* w2n.word_to_num was called (w2n).  "not text" returns 0.0 at once; an
\* input without str.replace raises inside the try block, and the except
\* clause returns 0.0.
ParseAmountRun(t) ==
    IF Falsy(t) THEN [val |-> 0, w2n |-> FALSE]
    ELSE IF ~IsStr(t) THEN [val |-> 0, w2n |-> FALSE]
    ELSE LET s == TextClean(Chars(t))
             i == SearchStart(s)
             w == WordToNum(s)
         IN IF i > 0 THEN [val |-> MatchValue(s, i, MatchEnd(s, i)), w2n |-> FALSE]
            ELSE IF w.exc THEN [val |-> 0, w2n |-> TRUE]
            ELSE [val |-> w.val, w2n |-> TRUE]

\* ExpenseParser.parse_amount
ParseAmount(t) == ParseAmountRun(t).val

\* An optional value: None, or the value given.
NoneVal == [some |-> FALSE, val |-> 0]
Some(v) == [some |-> TRUE, val |-> v]

\* word in text, on characters.
Contains(s, w) ==
    \E i \in 1 .. Len(s) - Len(w) + 1 : SubSeq(s, i, i + Len(w) - 1) = w

\* What dateparser.parse may answer: None or a date-time.
DateParserAnswers == {NoneVal} \cup {Some(t) : t \in Times}

\* dateparser.parse raises instead of answering.
DateParserError == [some |-> FALSE, val |-> 0 - 1]

Yesterday == <<"y", "e", "s", "t", "e", "r", "d", "a", "y">>
Tomorrow == <<"t", "o", "m", "o", "r", "r", "o", "w">>

\* The if/elif chain with "tomorrow" asked first.
DateBranch_TomorrowFirst(s) ==
    IF Contains(s, Tomorrow) THEN "tomorrow"
    ELSE IF Contains(s, Yesterday) THEN "yesterday"
    ELSE IF Contains(s, <<"l", "a", "s", "t">>) \/ Contains(s, <<"a", "g", "o">>) THEN "past"
    ELSE IF Contains(s, <<"n", "e", "x", "t">>) THEN "future"
    ELSE "general"

\* The branch the if/elif chain of parse_date takes for the lowered text s;
\* "past" and "future" are the PREFER_DATES_FROM settings of the branch.
DateBranch(s) ==
    IF Contains(s, Yesterday) THEN "yesterday"
    ELSE IF Contains(s, Tomorrow) THEN "tomorrow"
    ELSE IF Contains(s, <<"l", "a", "s", "t">>) \/ Contains(s, <<"a", "g", "o">>) THEN "past"
    ELSE IF Contains(s, <<"n", "e", "x", "t">>) THEN "future"
    ELSE "general"

\* The general parsing that ends the try block: calls holds the settings of
\* the calls of dateparser.parse made so far ("past", "future", or "none"
\* for the call without PREFER_DATES_FROM).
GeneralParse(now, general, calls) ==
    [raised |-> FALSE,
     val |-> IF general.some THEN general.val ELSE now,
     calls |-> Append(calls, "none")]

\* One run of ExpenseParser.parse_date at time now: whether it raised, the
\* date-time returned and the calls of dateparser.parse it made.  biased is
\* what dateparser.parse does with PREFER_DATES_FROM set and general what it
\* does without.  A day is two half-days.  "today" is bound inside the try
\* block after text.lower(): when that raises, the except clause logs and the
\* "return today" after it raises UnboundLocalError.
ParseDateRun(t, now, biased, general) ==
    IF Falsy(t) THEN [raised |-> FALSE, val |-> now, calls |-> <<>>]
    ELSE IF ~IsStr(t) THEN [raised |-> TRUE, val |-> 0, calls |-> <<>>]
    ELSE LET s == [i \in 1 .. Len(Chars(t)) |-> Lower(Chars(t)[i])]
             b == DateBranch(s)
         IN CASE b = "yesterday" -> [raised |-> FALSE, val |-> now - 2, calls |-> <<>>]
              [] b = "tomorrow" -> [raised |-> FALSE, val |-> now + 2, calls |-> <<>>]
              [] b \in {"past", "future"} ->
                     IF biased = DateParserError
                     THEN [raised |-> FALSE, val |-> now, calls |-> <<b>>]
                     ELSE IF biased.some
                     THEN [raised |-> FALSE, val |-> biased.val, calls |-> <<b>>]
                     ELSE GeneralParse(now, general, <<b>>)
              [] OTHER -> GeneralParse(now, general, <<>>)

\* ExpenseParser.parse_date, for a call that returns.
ParseDate(t, now, biased, general) == ParseDateRun(t, now, biased, general).val

\* ExpenseParser.parse_expense
ParseExpense(t, now, biased, general) ==
    LET amount == ParseAmount(t)
    IN [raw_text |-> t,
        detected_amount |-> amount,
        detected_date |-> ParseDate(t, now, biased, general),
        confidence |-> IF amount = 0 THEN 50 ELSE 100]

\* ---------------------------------------------------------- ExpenseAnalyzer
\* An amount is a float.  Floats are modelled as whole numbers (hundredths)
\* that carry MaxExactBits significant bits: a sum that needs more is rounded
\* to the nearest number that has them, ties to the even one, as IEEE 754
\* addition does with its 53 bits.
RECURSIVE UnitOf(_, _)
UnitOf(x, u) == IF x < (2 ^ MaxExactBits) * u THEN u ELSE UnitOf(x, 2 * u)

RoundFloat(x) ==
    LET m == IF x < 0 THEN 0 - x ELSE x
        u == UnitOf(m, 1)
        q == m \div u
        r == m % u
        up == 2 * r > u \/ (2 * r = u /\ q % 2 = 1)
        v == (IF up THEN q + 1 ELSE q) * u
    IN IF x < 0 THEN 0 - v ELSE v

\* a + b on floats
FAdd(a, b) == RoundFloat(a + b)

\* sum(exp.amount for exp in expenses): from 0, left to right.
RECURSIVE SumAmounts(_)
SumAmounts(s) ==
    IF s = <<>> THEN 0
    ELSE FAdd(SumAmounts(SubSeq(s, 1, Len(s) - 1)), s[Len(s)].amount)

\* The categories of a list in the order in which each is first met: the
\* keys of category_data in insertion order.
RECURSIVE FirstSeen(_)
FirstSeen(s) ==
    IF s = <<>> THEN <<>>
    ELSE LET before == FirstSeen(SubSeq(s, 1, Len(s) - 1))
             c == s[Len(s)].category
         IN IF \E i \in 1 .. Len(before) : before[i] = c THEN before
            ELSE Append(before, c)

\* CategoryTotal(cat, data["total"], data["count"])
CategoryTotal(s, c) ==
    LET mine == SelectSeq(s, LAMBDA e : e.category = c)
    IN [category |-> c, total |-> SumAmounts(mine), count |-> Len(mine)]

\* One step of a sort that puts x before the entries with the same total.
InsertDescending_Unstable(sorted, x) ==
    LET ahead == SelectSeq(sorted, LAMBDA y : y.total > x.total)
        behind == SelectSeq(sorted, LAMBDA y : y.total <= x.total)
    IN ahead \o <<x>> \o behind

\* One step of totals.sort(key=lambda x: x.total, reverse=True): the sort is
\* stable, so x comes after the entries before it whose total is as large.
InsertDescending(sorted, x) ==
    LET ahead == SelectSeq(sorted, LAMBDA y : y.total >= x.total)
        behind == SelectSeq(sorted, LAMBDA y : y.total < x.total)
    IN ahead \o <<x>> \o behind

RECURSIVE SortDescending(_)
SortDescending(ts) ==
    IF ts = <<>> THEN <<>>
    ELSE InsertDescending(SortDescending(SubSeq(ts, 1, Len(ts) - 1)), ts[Len(ts)])

\* calculate_category_totals that counts every record in every category.
CalculateCategoryTotals_CountAll(expenses) ==
    LET cats == FirstSeen(expenses)
    IN SortDescending([i \in 1 .. Len(cats) |->
           [category |-> cats[i],
            total |-> CategoryTotal(expenses, cats[i]).total,
            count |-> Len(expenses)]])

\* ExpenseAnalyzer.calculate_category_totals
CalculateCategoryTotals(expenses) ==
    LET cats == FirstSeen(expenses)
    IN SortDescending([i \in 1 .. Len(cats) |-> CategoryTotal(expenses, cats[i])])

\* filter_by_date_range that leaves the end date out.
FilterByDateRange_EndExclusive(expenses, start_date, end_date) ==
    SelectSeq(expenses, LAMBDA e : start_date <= e.date /\ e.date < end_date)

\* ExpenseAnalyzer.filter_by_date_range
FilterByDateRange(expenses, start_date, end_date) ==
    SelectSeq(expenses, LAMBDA e : start_date <= e.date /\ e.date <= end_date)

\* get_total_spending that counts the records.
GetTotalSpending_Count(expenses) == Len(expenses)

\* ExpenseAnalyzer.get_total_spending
GetTotalSpending(expenses) == SumAmounts(expenses)

\* ----------------------------------------------------------- ExcelFormatter
\* ExcelFormatter.format_workbook: restyles the sheet in place and saves it;
\* cell values are kept.  A failure is logged and raised again.
FormatWorkbook(f, fault) ==
    [raised |-> fault # "none", file |-> WriteFile(f, f, fault)]

\* ------------------------------------------------------------ OpenAIService
\* What client.chat.completions.create does when called: it answers, or it
\* raises an exception whose str() is text.
RemoteAnswer(text) == [ok |-> TRUE, text |-> text]
RemoteError(text) == [ok |-> FALSE, text |-> text]

RemoteOutcomes ==
    {RemoteAnswer("You spent most on Food."), RemoteError("Rate limit exceeded"),
     RemoteError("Connection error.")}

\* The f-string of the except clause: a text is the sequence of its parts.
FailurePrefix == "Sorry, I couldn't analyze your expenses: "

\* analyze_expenses that calls the service again after a failure.
AnalyzeExpenses_Retry(expenses, outcomes) ==
    IF outcomes[1].ok
    THEN [raised |-> FALSE, ret |-> <<outcomes[1].text>>, calls |-> 1]
    ELSE IF outcomes[2].ok
    THEN [raised |-> FALSE, ret |-> <<outcomes[2].text>>, calls |-> 2]
    ELSE [raised |-> FALSE, ret |-> <<FailurePrefix, outcomes[2].text>>, calls |-> 2]

\* OpenAIService.analyze_expenses(expenses, query): outcomes[k] is what the
\* service does at the k-th call.  The one call is made inside the try
\* block; an exception is logged and turned into the message returned.
AnalyzeExpenses(expenses, outcomes) ==
    IF outcomes[1].ok
    THEN [raised |-> FALSE, ret |-> <<outcomes[1].text>>, calls |-> 1]
    ELSE [raised |-> FALSE, ret |-> <<FailurePrefix, outcomes[1].text>>, calls |-> 1]

\* -------------------------------------------------------- ExpenseController
\* add_expense that refuses a record without a category or with the
\* reserved one.
ControllerAddExpense_Validating(f, e, now, fault) ==
    IF ~KeepRow([category |-> ReadCell(e.category)])
    THEN [raised |-> TRUE, file |-> f, ret |-> e]
    ELSE LET r == AddExpense(f, e, now, fault)
         IN [raised |-> r.raised, file |-> r.file, ret |-> e]

\* ExpenseController.add_expense, given the record parse_and_create_expense
\* built: the record is handed to storage.add_expense and returned.
ControllerAddExpense(f, e, now, fault) ==
    LET r == AddExpense(f, e, now, fault)
    IN [raised |-> r.raised, file |-> r.file, ret |-> e]

\* parse_and_create_expense that takes a manual amount of 0 for none given.
ParseAndCreateExpense_Truthy(t, category, manual_amount, manual_date, now, biased, general) ==
    LET parsed == ParseExpense(t, now, biased, general)
    IN Expense(IF manual_date.some THEN manual_date.val ELSE parsed.detected_date,
               category,
               IF manual_amount.some /\ manual_amount.val # 0
                   THEN manual_amount.val ELSE parsed.detected_amount,
               t)

\* ExpenseController.parse_and_create_expense: a datetime is always true, so
\* "manual_date if manual_date" asks whether one was given; the amount is
\* tested with "is not None".
ParseAndCreateExpense(t, category, manual_amount, manual_date, now, biased, general) ==
    LET parsed == ParseExpense(t, now, biased, general)
    IN Expense(IF manual_date.some THEN manual_date.val ELSE parsed.detected_date,
               category,
               IF manual_amount.some THEN manual_amount.val ELSE parsed.detected_amount,
               t)

\* ExpenseController.add_expense(text, category, manual_amount, manual_date)
AddExpenseFromText(f, c, now, biased, general, fault) ==
    ControllerAddExpense(f,
        ParseAndCreateExpense(c.text, c.category, c.manual_amount, c.manual_date,
                              now, biased, general),
        now, fault)

\* ExpenseController.get_all_expenses
GetAllExpenses(f, now) == LoadExpenses(f, now)

\* ExpenseController.get_dashboard_data
GetDashboardData(f, now) ==
    LET l == LoadExpenses(f, now)
    IN [raised |-> l.raised,
        expenses |-> l.val,
        category_totals |-> CalculateCategoryTotals(l.val),
        total_spending |-> GetTotalSpending(l.val),
        expense_count |-> Len(l.val)]

\* export_to_excel that writes the TOTAL record alone.
ExportToExcel_TotalOnly(store, target, now, fault, fmtFault) ==
    LET l == LoadExpenses(store, now)
        total == GetTotalSpending(l.val)
        s == SaveExpenses(target, <<Expense(now, "TOTAL", total, "")>>, fault)
        fm == FormatWorkbook(s.file, fmtFault)
    IN IF l.raised THEN [raised |-> TRUE, file |-> target]
       ELSE IF s.raised THEN s
       ELSE fm

\* ExpenseController.export_to_excel(path): store is the store's file and
\* target the file at path before the call (the same file when path is the
\* store's own).  The records are loaded, the TOTAL record is appended, the
\* list is saved at path through a second ExcelStorage and the workbook is
\* formatted.
ExportToExcel(store, target, now, fault, fmtFault) ==
    LET l == LoadExpenses(store, now)
        total == GetTotalSpending(l.val)
        s == SaveExpenses(target, Append(l.val, Expense(now, "TOTAL", total, "")), fault)
        fm == FormatWorkbook(s.file, fmtFault)
    IN IF l.raised THEN [raised |-> TRUE, file |-> target]
       ELSE IF s.raised THEN s
       ELSE fm

\* export_to_excel that saves through the controller's own storage.
ExportAt_ThroughStore(own, other, path, now, fault, fmtFault) ==
    LET r == ExportToExcel(own, own, now, fault, fmtFault)
    IN [raised |-> r.raised, own |-> r.file, other |-> other]

\* export_to_excel(path) on the two files of the model: own is the file at
\* the store's path and other the file at the other path; the export is
\* saved through ExcelStorage(file_path), a storage of its own.
ExportAt(own, other, path, now, fault, fmtFault) ==
    IF path = "DATA_PATH"
    THEN LET r == ExportToExcel(own, own, now, fault, fmtFault)
         IN [raised |-> r.raised, own |-> r.file, other |-> other]
    ELSE LET r == ExportToExcel(own, other, now, fault, fmtFault)
         IN [raised |-> r.raised, own |-> own, other |-> r.file]

\* ExpenseController.clear_all_expenses
ClearAllExpenses(f, fault) == ClearAll(f, fault)

\* ------------------------------------------------------------------ state
VARIABLES
    file,        \* the store's backing file (DATA_PATH)
    exportFile,  \* the file at another path, an export's destination
    last,        \* the call that ran last: its name, whether it raised and
                 \* how many records the store held when it was made
    exports,     \* exports onto the store's own path that returned, up to MaxExports
    pc,          \* two sessions each running one add_expense: where each is
    rec,         \* the record each session adds
    buf,         \* the list each session holds between its load and its save
    base,        \* the records the store held before the two calls
    hist,        \* the file accesses of the two calls, in the order they ran
    clear_stage  \* st.session_state.clear_stage of the page

seqVars == <<file, exportFile, last, exports>>
concVars == <<pc, rec, buf, base, hist>>
uiVars == <<clear_stage>>
vars == <<file, exportFile, last, exports, pc, rec, buf, base, hist, clear_stage>>

Procs == 1 .. 2

SeqsUpTo(S, n) == UNION {[1 .. k -> S] : k \in 0 .. n}

\* Rows a file may hold before the store is constructed over it.
InitRows ==
    {[date |-> d, category |-> c, amount |-> 1, notes |-> ""] :
        d \in {YmdCell(0), BadTextCell}, c \in {"", "Food", "TOTAL", "total"}}

InitFiles ==
    {Absent, Unreadable, [kind |-> "sheet", header |-> TRUE, rows |-> <<>>]}
      \cup {Sheet(rows) : rows \in SeqsUpTo(InitRows, MaxInitRows)}

\* Records offered to add_expense: a time of day that is not midnight, both
\* amounts, notes empty and not, an empty and a reserved category.
Expenses ==
    {Expense(1, "Food", 1, "lunch"), Expense(MaxTime, "Food", 2, ""),
     Expense(MaxTime, "Gas", 1, ""), Expense(1, "", 2, "lunch"),
     Expense(1, "total", 1, "")}

\* Lists handed to save_expenses directly.
SaveLists ==
    SeqsUpTo({Expense(1, "Food", 1, ""), Expense(MaxTime, "Gas", 2, "lunch"),
              Expense(1, "TOTAL", 1, ""), Expense(1, "", 1, "")}, MaxSave)

Done(op, raised, had) == [op |-> op, raised |-> raised, had |-> had]

\* The number of records load_expenses finds in f.
Held(f, now) == Len(LoadExpenses(f, now).val)

\* The instants a load of file f may read from the clock: from_dict calls
\* datetime.now() only for a date cell that is not text.
ClockReads(f) ==
    IF \E i \in 1 .. Len(f.rows) : f.rows[i].date.kind = "other" THEN Times
    ELSE {MaxTime}

\* How an export may go: the formatter runs only after a save that worked.
ExportFaults ==
    {<<"none", ff>> : ff \in Faults} \cup {<<wf, "none">> : wf \in Faults \ {"none"}}

\* No concurrent session is running.
ConcIdle ==
    /\ pc = [p \in Procs |-> "idle"]
    /\ rec = [p \in Procs |-> Expense(0, "", 0, "")]
    /\ buf = [p \in Procs |-> <<>>]
    /\ base = <<>>
    /\ hist = <<>>

Init ==
    /\ file \in InitFiles
    /\ exportFile = Absent
    /\ last = Done("init", FALSE, 0)
    /\ exports = 0
    /\ ConcIdle
    /\ clear_stage = "idle"

\* ------------------------------------------------- the store's own interface
\* storage.load_expenses()
StLoad ==
    \E now \in ClockReads(file) :
        /\ last' = Done("load_expenses", LoadExpenses(file, now).raised, Held(file, now))
        /\ UNCHANGED <<file, exportFile, exports>>

\* storage.save_expenses(S).  What a failed write leaves does not depend on
\* the list, so the failures are drawn with the short lists only.
StSave ==
    \E S \in SaveLists, now \in ClockReads(file), fault \in Faults :
        LET r == SaveExpenses(file, S, fault)
        IN /\ fault = "none" \/ Len(S) <= 1
           /\ file' = r.file
           /\ last' = Done("save_expenses", r.raised, Held(file, now))
           /\ UNCHANGED <<exportFile, exports>>

\* storage.add_expense(e)
StAdd ==
    \E e \in Expenses, now \in ClockReads(file), fault \in Faults :
        LET r == AddExpense(file, e, now, fault)
        IN /\ Len(LoadExpenses(file, now).val) < MaxRows
           /\ file' = r.file
           /\ last' = Done("add_expense", r.raised, Held(file, now))
           /\ UNCHANGED <<exportFile, exports>>

\* storage.clear_all()
StClear ==
    \E now \in ClockReads(file), fault \in Faults :
        LET r == ClearAll(file, fault)
        IN /\ file' = r.file
           /\ last' = Done("clear_all", r.raised, Held(file, now))
           /\ UNCHANGED <<exportFile, exports>>

\* storage.save_expenses(storage.load_expenses())
StResave ==
    \E now \in ClockReads(file), fault \in Faults :
        LET r == SaveExpenses(file, LoadExpenses(file, now).val, fault)
        IN /\ file' = r.file
           /\ last' = Done("resave", r.raised, Held(file, now))
           /\ UNCHANGED <<exportFile, exports>>

NextStorage ==
    /\ UNCHANGED <<concVars, uiVars>>
    /\ \/ StLoad
       \/ StSave
       \/ StAdd
       \/ StClear
       \/ StResave

SpecStorage == Init /\ [][NextStorage]_vars

\* ------------------------------------------------ the orchestrator's calls
\* controller.get_all_expenses()
DoGetAll ==
    \E now \in ClockReads(file) :
        /\ last' = Done("ctl.get_all_expenses", GetAllExpenses(file, now).raised, Held(file, now))
        /\ UNCHANGED <<file, exportFile, exports>>

\* controller.get_dashboard_data()
DoDashboard ==
    \E now \in ClockReads(file) :
        /\ last' = Done("ctl.get_dashboard_data", GetDashboardData(file, now).raised, Held(file, now))
        /\ UNCHANGED <<file, exportFile, exports>>

\* controller.add_expense(...), which hands the record to storage.add_expense
DoAdd ==
    \E e \in Expenses, now \in ClockReads(file), fault \in Faults :
        LET r == ControllerAddExpense(file, e, now, fault)
        IN /\ Len(LoadExpenses(file, now).val) < MaxRows
           /\ file' = r.file
           /\ last' = Done("ctl.add_expense", r.raised, Held(file, now))
           /\ UNCHANGED <<exportFile, exports>>

\* controller.clear_all_expenses()
DoClear ==
    \E now \in ClockReads(file), fault \in Faults :
        LET r == ClearAllExpenses(file, fault)
        IN /\ file' = r.file
           /\ last' = Done("ctl.clear_all_expenses", r.raised, Held(file, now))
           /\ UNCHANGED <<exportFile, exports>>

\* controller.export_to_excel(DATA_PATH), as the UI's export button does
DoExportOwn ==
    \E now \in Times, ef \in ExportFaults :
        LET r == ExportToExcel(file, file, now, ef[1], ef[2])
        IN /\ file' = r.file
           /\ last' = Done("ctl.export_to_excel(DATA_PATH)", r.raised, Held(file, now))
           /\ exports' = (IF ~r.raised /\ exports < MaxExports THEN exports + 1 ELSE exports)
           /\ UNCHANGED exportFile

\* controller.export_to_excel(path) for another path
DoExportOther ==
    \E now \in Times, ef \in ExportFaults :
        LET r == ExportAt(file, exportFile, "other", now, ef[1], ef[2])
        IN /\ file' = r.own
           /\ exportFile' = r.other
           /\ last' = Done("ctl.export_to_excel(other)", r.raised, Held(file, now))
           /\ UNCHANGED exports

\* The calls the UI makes on the store's own file.
Next ==
    /\ UNCHANGED <<concVars, uiVars>>
    /\ \/ DoGetAll
       \/ DoDashboard
       \/ DoAdd
       \/ DoClear
       \/ DoExportOwn

Spec == Init /\ [][Next]_vars

\* Exports to another path, between additions.
NextExport ==
    /\ UNCHANGED <<concVars, uiVars>>
    /\ \/ DoAdd
       \/ DoExportOther
       \/ DoGetAll

SpecExport == Init /\ [][NextExport]_vars

\* ------------------------------------------- two sessions on one file
\* Two Streamlit sessions share the file and nothing else; each runs one
\* add_expense, which is a load of the file followed by a save of the loaded
\* list with the new record appended.  The save opens the file for writing,
\* which truncates it, and writes the workbook when the writer is closed;
\* until then the file is no workbook.
ConcFiles ==
    {Absent,
     Sheet(<<[date |-> YmdCell(0), category |-> "Food", amount |-> 1, notes |-> ""]>>),
     Sheet(<<[date |-> YmdCell(0), category |-> "Gas", amount |-> 2, notes |-> "lunch"],
             [date |-> YmdCell(0), category |-> "TOTAL", amount |-> 2, notes |-> ""]>>)}

ConcRecords == {e \in Expenses : e.category \in {"Food", "Gas"}}

InitConc ==
    /\ file \in ConcFiles
    /\ exportFile = Absent
    /\ last = Done("init", FALSE, 0)
    /\ exports = 0
    /\ pc = [p \in Procs |-> "start"]
    /\ rec \in [Procs -> ConcRecords]
    /\ buf = [p \in Procs |-> <<>>]
    /\ base = LoadExpenses(file, MaxTime).val
    /\ hist = <<>>
    /\ clear_stage = "idle"

Event(kind, p) == [kind |-> kind, proc |-> p]

\* The sessions that have the file open for writing.
Writers == {p \in Procs : pc[p] = "writing"}

\* Session p's write ran while another session had the file open for writing.
WritesOverlapped(h, p) ==
    \E i, j, k \in 1 .. Len(h) :
        /\ i < j /\ j < k
        /\ h[i].kind = "open" /\ h[k].kind = "close" /\ h[i].proc = h[k].proc
        /\ h[j].kind \in {"open", "close"} /\ h[j].proc # h[i].proc
        /\ p \in {h[i].proc, h[j].proc}

\* expenses = self.load_expenses(); expenses.append(expense)
CLoad(p) ==
    /\ pc[p] = "start"
    /\ \E now \in ClockReads(file) :
           buf' = [buf EXCEPT ![p] = WithAppended(LoadExpenses(file, now).val, rec[p])]
    /\ pc' = [pc EXCEPT ![p] = "loaded"]
    /\ hist' = Append(hist, Event("load", p))
    /\ UNCHANGED <<seqVars, rec, base, uiVars>>

\* self.save_expenses(expenses), first part: the file is opened for writing.
COpen(p) ==
    /\ pc[p] = "loaded"
    /\ file' = Unreadable
    /\ pc' = [pc EXCEPT ![p] = "writing"]
    /\ hist' = Append(hist, Event("open", p))
    /\ UNCHANGED <<exportFile, last, exports, rec, buf, base, uiVars>>

\* self.save_expenses(expenses), second part: the workbook is written and the
\* file closed.  Two writers on one file at a time leave either the workbook
\* of the one that closes last or a file that is no workbook.
CClose(p) ==
    /\ pc[p] = "writing"
    /\ LET h == Append(hist, Event("close", p))
           whole == SaveExpenses(file, buf[p], "none").file
       IN /\ hist' = h
          /\ file' \in (IF WritesOverlapped(h, p) THEN {whole, Unreadable} ELSE {whole})
    /\ pc' = [pc EXCEPT ![p] = "done"]
    /\ UNCHANGED <<exportFile, last, exports, rec, buf, base, uiVars>>

NextConc == \E p \in Procs : CLoad(p) \/ COpen(p) \/ CClose(p)

SpecConc == InitConc /\ [][NextConc]_vars

\* ------------------------------------------------- entering an expense
\* The calls of ExpenseController.add_expense the entry model makes.
Call(t, category, manual_amount, manual_date) ==
    [text |-> t, category |-> category,
     manual_amount |-> manual_amount, manual_date |-> manual_date]

EntryCalls ==
    {Call("$5", "Food", NoneVal, NoneVal),
     Call("$5", "Food", Some(0), Some(1)),
     Call("tea", "Gas", Some(0 - 100), Some(0)),
     Call("7 yesterday", "Food", NoneVal, NoneVal),
     Call("a12", "Gas", NoneVal, Some(0))}

\* What the manual entry form hands over: number_input has min_value=0.0.
FormAmounts == {0, 250}

\* The outcome of a call of add_expense(text, ...): the arguments, the time
\* of the call, dateparser's answer and the record returned as well.
Called(op, raised, had, args, now, general, ret) ==
    [op |-> op, raised |-> raised, had |-> had, args |-> args,
     now |-> now, general |-> general, ret |-> ret]

InitEntry ==
    /\ file \in {Absent,
                 Sheet(<<[date |-> YmdCell(0), category |-> "Food",
                          amount |-> 100, notes |-> "tea"]>>)}
    /\ exportFile = Absent
    /\ last = Done("init", FALSE, 0)
    /\ exports = 0
    /\ ConcIdle
    /\ clear_stage = "idle"

\* controller.add_expense(text, category, manual_amount, manual_date)
CtlAdd ==
    \E c \in EntryCalls, now \in {MaxTime}, general \in {NoneVal, Some(1)},
       fault \in {"none", "torn"} :
        /\ Len(LoadExpenses(file, now).val) < MaxRows
        /\ LET r == AddExpenseFromText(file, c, now, NoneVal, general, fault)
           IN /\ file' = r.file
              /\ last' = Called("ctl.add_expense(text)", r.raised, Held(file, now),
                                c, now, general, r.ret)
        /\ UNCHANGED <<exportFile, exports>>

\* The manual entry form's submit handler: an amount of 0 or less is refused
\* with an error; otherwise the controller adds the expense with the form's
\* amount and date, and a failure is shown, not raised.
UiSubmit ==
    \E amount \in FormAmounts, now \in {MaxTime}, fault \in {"none", "early"} :
        LET c == Call("$5", "Food", Some(amount), Some(2))
            r == AddExpenseFromText(file, c, now, NoneVal, NoneVal, fault)
        IN IF amount <= 0
           THEN /\ last' = Called("ui.submit refused", FALSE, Held(file, now),
                                  c, now, NoneVal, NoneVal)
                /\ UNCHANGED <<file, exportFile, exports>>
           ELSE /\ Len(LoadExpenses(file, now).val) < MaxRows
                /\ file' = r.file
                /\ last' = Called(IF r.raised THEN "ui.submit failed" ELSE "ui.submit saved",
                                  FALSE, Held(file, now), c, now, NoneVal, r.ret)
                /\ UNCHANGED <<exportFile, exports>>

NextEntry ==
    /\ UNCHANGED <<concVars, uiVars>>
    /\ \/ CtlAdd
       \/ UiSubmit
       \/ DoClear

SpecEntry == InitEntry /\ [][NextEntry]_vars

\* ------------------------------------------------------ ExpenseAnalyzer calls
\* The analyzer is handed a list and answers; it keeps nothing.  last holds
\* the list as it is after the call, and the answer.
BigAmount == 2 ^ MaxExactBits

TotalsRecords ==
    {Expense(0, c, a, "") : c \in {"Food", "Gas", "Fun"}, a \in {1, 2, BigAmount}}

DatedRecords == {Expense(t, "Food", 1, "") : t \in Times}

\* The list of the analyzer tests: Food 25.50, Gas 45.00, Food 15.75,
\* Entertainment 50.00.
SampleExpenses ==
    <<Expense(0, "Food", 2550, ""), Expense(0, "Gas", 4500, ""),
      Expense(1, "Food", 1575, ""), Expense(2, "Entertainment", 5000, "")>>

DatedLists == SeqsUpTo(DatedRecords, MaxList) \cup {SampleExpenses}

AnalyzerLists == SeqsUpTo(TotalsRecords, MaxList) \cup DatedLists

Given(expenses) ==
    [op |-> "given", raised |-> FALSE, had |-> 0, expenses |-> expenses]

Answered(op, expenses, args, result) ==
    [op |-> op, raised |-> FALSE, had |-> 0, expenses |-> expenses,
     args |-> args, result |-> result]

InitAnalyzer ==
    /\ file = Absent
    /\ exportFile = Absent
    /\ last \in {Given(l) : l \in AnalyzerLists}
    /\ exports = 0
    /\ ConcIdle
    /\ clear_stage = "idle"

AnCategoryTotals ==
    /\ last' = Answered("calculate_category_totals", last.expenses, <<>>,
                        CalculateCategoryTotals(last.expenses))
    /\ UNCHANGED <<file, exportFile, exports>>

AnTotalSpending ==
    /\ last' = Answered("get_total_spending", last.expenses, <<>>,
                        GetTotalSpending(last.expenses))
    /\ UNCHANGED <<file, exportFile, exports>>

AnFilter ==
    /\ last.expenses \in DatedLists
    /\ \E start_date \in Times, end_date \in Times :
           last' = Answered("filter_by_date_range", last.expenses,
                            <<start_date, end_date>>,
                            FilterByDateRange(last.expenses, start_date, end_date))
    /\ UNCHANGED <<file, exportFile, exports>>

NextAnalyzer ==
    /\ UNCHANGED <<concVars, uiVars>>
    /\ \/ AnCategoryTotals
       \/ AnTotalSpending
       \/ AnFilter

SpecAnalyzer == InitAnalyzer /\ [][NextAnalyzer]_vars

\* ------------------------------------------------------ the dashboard
\* Adds, clears and dashboard reads on a store that starts empty; the
\* amounts include one at the limit of exact float addition.
DashRecords ==
    {Expense(0, "Food", 1, ""), Expense(0, "Food", 2, ""),
     Expense(0, "Gas", 1, ""), Expense(0, "Gas", BigAmount, "")}

InitDash ==
    /\ file = Absent
    /\ exportFile = Absent
    /\ last = Done("init", FALSE, 0)
    /\ exports = 0
    /\ ConcIdle
    /\ clear_stage = "idle"

DashAdd ==
    \E e \in DashRecords, now \in ClockReads(file), fault \in {"none", "early"} :
        /\ Len(LoadExpenses(file, now).val) < MaxList
        /\ LET r == ControllerAddExpense(file, e, now, fault)
           IN /\ file' = r.file
              /\ last' = Done("ctl.add_expense", r.raised, Held(file, now))
        /\ UNCHANGED <<exportFile, exports>>

NextDash ==
    /\ UNCHANGED <<concVars, uiVars>>
    /\ \/ DashAdd
       \/ DoClear
       \/ DoDashboard

SpecDash == InitDash /\ [][NextDash]_vars

\* ------------------------------------------------------ ExpenseParser calls
\* The parser is handed a text and answers; it keeps nothing.  last holds
\* the text, the time of the call, dateparser's answers and the answer.
GivenText(t, now, biased, general) ==
    [op |-> "given", raised |-> FALSE, had |-> 0, text |-> t, now |-> now,
     biased |-> biased, general |-> general]

Parsed(op, raised, given, result) ==
    [op |-> op, raised |-> raised, had |-> 0, text |-> given.text, now |-> given.now,
     biased |-> given.biased, general |-> given.general, result |-> result]

\* What dateparser.parse does in the parser model: no date, a date, an error.
ResolverOutcomes(t) == {NoneVal, Some(t), DateParserError}

InitParser ==
    /\ file = Absent
    /\ exportFile = Absent
    /\ last \in {GivenText(t, MaxTime, biased, general) :
                    t \in ParserInputs, biased \in ResolverOutcomes(0),
                    general \in ResolverOutcomes(1)}
    /\ exports = 0
    /\ ConcIdle
    /\ clear_stage = "idle"

PaParseAmount ==
    /\ last' = Parsed("parse_amount", FALSE, last, ParseAmount(last.text))
    /\ UNCHANGED <<file, exportFile, exports>>

PaParseDate ==
    /\ LET run == ParseDateRun(last.text, last.now, last.biased, last.general)
       IN last' = Parsed("parse_date", run.raised, last, run.val)
    /\ UNCHANGED <<file, exportFile, exports>>

\* parse_expense calls parse_amount, then parse_date, and raises when that does.
PaParseExpense ==
    /\ LET run == ParseDateRun(last.text, last.now, last.biased, last.general)
       IN last' = Parsed("parse_expense", run.raised, last,
                         IF run.raised THEN NoneVal
                         ELSE ParseExpense(last.text, last.now, last.biased, last.general))
    /\ UNCHANGED <<file, exportFile, exports>>

NextParser ==
    /\ UNCHANGED <<concVars, uiVars>>
    /\ \/ PaParseAmount
       \/ PaParseDate
       \/ PaParseExpense

SpecParser == InitParser /\ [][NextParser]_vars

\* ------------------------------------------------------ the query service
\* Questions about the records of the store, between additions: the records
\* handed to analyze_expenses are the ones the dashboard loaded.  last holds
\* what the service did at each call it could get, the store's file as it was
\* before the call, and the answer.
Asked(raised, had, outcomes, before, run) ==
    [op |-> "ai.analyze_expenses", raised |-> raised, had |-> had,
     outcomes |-> outcomes, before |-> before, ret |-> run.ret, calls |-> run.calls]

AiAnalyze ==
    \E now \in ClockReads(file), outcomes \in [1 .. 2 -> RemoteOutcomes] :
        LET run == AnalyzeExpenses(GetDashboardData(file, now).expenses, outcomes)
        IN /\ last' = Asked(run.raised, Held(file, now), outcomes, file, run)
           /\ UNCHANGED <<file, exportFile, exports>>

NextAI ==
    /\ UNCHANGED <<concVars, uiVars>>
    /\ \/ AiAnalyze
       \/ DoAdd

SpecAI == InitEntry /\ [][NextAI]_vars

\* ------------------------------------------- adding over a file as found
\* storage.add_expense(e) on whatever file the store is constructed over;
\* last holds the record and the file as it was before the call as well.
Added(raised, had, e, before) ==
    [op |-> "add_expense", raised |-> raised, had |-> had,
     expense |-> e, before |-> before]

StAddOver ==
    \E e \in Expenses, now \in ClockReads(file), fault \in Faults :
        LET r == AddExpense(file, e, now, fault)
        IN /\ Len(LoadExpenses(file, now).val) < MaxRows
           /\ file' = r.file
           /\ last' = Added(r.raised, Held(file, now), e, file)
           /\ UNCHANGED <<exportFile, exports>>

NextOver ==
    /\ UNCHANGED <<concVars, uiVars>>
    /\ \/ StAddOver
       \/ StLoad

SpecOver == Init /\ [][NextOver]_vars

\* ------------------------------------------------------ clearing the data
\* The CLEAR DATA section of the page.  clear_stage is "idle" when the
\* session starts; each stage draws its own buttons, and every other button
\* of the page leaves the stage alone.
ClearStages == {"idle", "confirm"}

\* "Delete All Entries": st.session_state.clear_stage = "confirm"
StageAfterDelete(stage) == "confirm"

\* The Yes handler that goes back to idle whether or not clearing worked.
StageAfterYes_AlwaysIdle(stage, raised) == "idle"

\* "Yes, clear all data": the stage is set to idle after clear_all_expenses
\* and get_dashboard_data have returned; an exception is shown and the
\* assignment is not reached.
StageAfterYes(stage, raised) == IF raised THEN stage ELSE "idle"

\* "Cancel": st.session_state.clear_stage = "idle"
StageAfterCancel(stage) == "idle"

\* A click: the button, whether its handler met an exception, the records
\* held and the stage before it.
Clicked(op, raised, had, stage) ==
    [op |-> op, raised |-> raised, had |-> had, stage |-> stage]

InitClear ==
    /\ file \in {Absent,
                 Sheet(<<[date |-> YmdCell(0), category |-> "Food",
                          amount |-> 1, notes |-> ""]>>)}
    /\ exportFile = Absent
    /\ last = Done("init", FALSE, 0)
    /\ exports = 0
    /\ ConcIdle
    /\ clear_stage = "idle"

UiDeleteAll ==
    /\ clear_stage = "idle"
    /\ clear_stage' = StageAfterDelete(clear_stage)
    /\ last' = Clicked("ui.delete_all", FALSE, Held(file, MaxTime), clear_stage)
    /\ UNCHANGED <<file, exportFile, exports>>

UiYes ==
    /\ clear_stage = "confirm"
    /\ \E fault \in Faults :
           LET r == ClearAllExpenses(file, fault)
               d == GetDashboardData(r.file, MaxTime)
               raised == r.raised \/ d.raised
           IN /\ file' = r.file
              /\ clear_stage' = StageAfterYes(clear_stage, raised)
              /\ last' = Clicked("ui.yes", raised, Held(file, MaxTime), clear_stage)
    /\ UNCHANGED <<exportFile, exports>>

UiCancel ==
    /\ clear_stage = "confirm"
    /\ clear_stage' = StageAfterCancel(clear_stage)
    /\ last' = Clicked("ui.cancel", FALSE, Held(file, MaxTime), clear_stage)
    /\ UNCHANGED <<file, exportFile, exports>>

\* The form's submit, whatever the stage.
UiAdd ==
    /\ DoAdd
    /\ UNCHANGED clear_stage

NextClear ==
    /\ UNCHANGED concVars
    /\ \/ UiDeleteAll
       \/ UiYes
       \/ UiCancel
       \/ UiAdd

SpecClear == InitClear /\ [][NextClear]_vars

\* ------------------------------------------------ calls that only read
\* The calls of the orchestrator that write nothing at the store's path, on
\* every file the store can be constructed over.
\* controller.parse_and_create_expense(text, category, ...): the record is
\* built and returned; the storage is not called.
DoParseCreate ==
    \E c \in EntryCalls, now \in ClockReads(file), general \in {NoneVal, Some(1)} :
        LET e == ParseAndCreateExpense(c.text, c.category, c.manual_amount,
                                       c.manual_date, now, NoneVal, general)
        IN /\ e.category = c.category
           /\ last' = Done("ctl.parse_and_create_expense", FALSE, Held(file, now))
           /\ UNCHANGED <<file, exportFile, exports>>

NextReadOnly ==
    /\ UNCHANGED <<concVars, uiVars>>
    /\ \/ DoGetAll
       \/ DoDashboard
       \/ DoParseCreate
       \/ DoExportOther

SpecReadOnly == Init /\ [][NextReadOnly]_vars

\* ======================================================================
\* The claims
\* ======================================================================
IsTotalLabel(c) == c \in {"TOTAL", "Total", "total"}

\* A category a live record may carry: present and not the reserved label.
LiveLabel(c) == c # "" /\ c # NaN /\ ~IsTotalLabel(c)

LiveRow(row) == LiveLabel(row.category)
LiveRecord(e) == LiveLabel(e.category)

\* The rows of a file that are neither summary rows nor rows without a category.
OtherRows(f) == SelectSeq(f.rows, LiveRow)

\* A record as the file keeps it: the date at midnight of its day, empty
\* notes as the missing value.
Persisted(e) ==
    [date |-> (e.date \div 2) * 2, category |-> e.category,
     amount |-> e.amount, notes |-> IF e.notes = "" THEN NaN ELSE e.notes]

PersistedAll(s) == [i \in 1 .. Len(s) |-> Persisted(s[i])]

\* Record e is what row says: its day, category, amount and notes.
RowMatches(e, row) ==
    /\ row.date.kind = "ymd"
    /\ e.date = row.date.day * 2
    /\ e.category = row.category
    /\ e.amount = row.amount
    /\ e.notes = (IF row.notes = "" THEN NaN ELSE row.notes)

\* Sequence s holds exactly the records of rows, in order.
AllRowsReturned(s, rows) ==
    /\ Len(s) = Len(rows)
    /\ \A i \in 1 .. Len(rows) : RowMatches(s[i], rows[i])

NoTotalIn(s) == \A i \in 1 .. Len(s) : LiveRecord(s[i])

IsPrefix(s, t) == Len(s) <= Len(t) /\ \A i \in 1 .. Len(s) : s[i] = t[i]

RECURSIVE RowAmounts(_)
RowAmounts(rows) == IF rows = <<>> THEN 0 ELSE rows[1].amount + RowAmounts(Tail(rows))

TotalRowsOf(f) == {i \in 1 .. Len(f.rows) : IsTotalLabel(f.rows[i].category)}

\* File f holds exactly one TOTAL row, and it is the last row.
ExactlyOneTotalRow(f) ==
    /\ f.kind = "sheet"
    /\ TotalRowsOf(f) = {Len(f.rows)}
    /\ f.rows[Len(f.rows)].category = "TOTAL"

\* C2: whatever orchestrator calls have run, repeated exports included, the
\* record set never holds a TOTAL record and the dashboard's list and total
\* never count one: the total is the sum over the live rows of the file.  An
\* export that returns, onto the store's own path or onto another, leaves a
\* file with exactly one TOTAL row.
C2_TotalIsNeverLive ==
    \A now \in ClockReads(file) :
        LET l == LoadExpenses(file, now).val
            d == GetDashboardData(file, now)
            others == OtherRows(file)
        IN /\ NoTotalIn(l)
           /\ d.expenses = l
           /\ d.expense_count = Len(l)
           /\ d.total_spending =
                  (IF \A i \in 1 .. Len(others) : others[i].date.kind = "ymd"
                   THEN RowAmounts(others) ELSE 0)
           /\ (last.op = "ctl.export_to_excel(DATA_PATH)" /\ ~last.raised)
                  => ExactlyOneTotalRow(file)
           /\ \A t \in Times :
                  LET own == ExportToExcel(file, file, t, "none", "none")
                      other == ExportToExcel(file, Absent, t, "none", "none")
                  IN /\ ~own.raised /\ ExactlyOneTotalRow(own.file)
                     /\ ~other.raised /\ ExactlyOneTotalRow(other.file)

\* The store holds a record and has been exported onto its own path as often
\* as the model counts, the last call being such an export.
C2_Witness ==
    /\ last.op = "ctl.export_to_excel(DATA_PATH)" /\ ~last.raised
    /\ exports = MaxExports
    /\ last.had >= 1
    /\ Len(file.rows) = last.had + 1

\* ---------------------------------------------------------------- C6
\* A step of the orchestrator other than clear_all_expenses leaves the
\* record set with the set before the step as a prefix.
KeepsPrefix ==
    \A now \in ClockReads(file) :
        \A then \in ClockReads(file') :
            IsPrefix(LoadExpenses(file, now).val, LoadExpenses(file', then).val)

Pos(kind, p) == CHOOSE i \in 1 .. Len(hist) : hist[i] = Event(kind, p)

BothDone == \A p \in Procs : pc[p] = "done"

\* The session whose save ran last.
LastSaver == hist[Len(hist)].proc

\* Both loads ran before either save began.
BothLoadsFirst == \A p, q \in Procs : Pos("load", p) < Pos("open", q)

\* No load and no write of one session ran while the other was writing.
Undisturbed ==
    \A p, q \in Procs :
        p # q =>
            /\ ~(Pos("open", p) < Pos("load", q) /\ Pos("load", q) < Pos("close", p))
            /\ ~(Pos("open", p) < Pos("open", q) /\ Pos("open", q) < Pos("close", p))

\* The store holds what it held before both calls, then the record of the
\* session that saved first unless both loads ran before either save, then
\* the record of the session that saved last.
LastWriterWins ==
    LET final == LoadExpenses(file, MaxTime).val
        w == LastSaver
        o == CHOOSE q \in Procs : q # w
    IN IF BothLoadsFirst
       THEN final = base \o <<Persisted(rec[w])>>
       ELSE final = base \o <<Persisted(rec[o]), Persisted(rec[w])>>

\* C7 as claimed: after two concurrent add_expense calls on one file, each a
\* load step followed by a save step, the store holds every record it held
\* before and the record of the call that saved last; the other call's
\* record is lost exactly when both loads ran before either save.
C7_LastWriterWins == BothDone => LastWriterWins

\* C7 as amended: the same, when no load and no write of one call ran while
\* the other call had the file open for writing.
C7_LastWriterWinsUndisturbed == (BothDone /\ Undisturbed) => LastWriterWins

\* Both calls are done, both loaded before either saved, neither was
\* disturbed, and the store held a record before.
C7_Witness ==
    /\ BothDone /\ Undisturbed /\ BothLoadsFirst
    /\ Len(base) = 1
    /\ rec[1] # rec[2]
    /\ Len(LoadExpenses(file, MaxTime).val) = 2

\* Both calls are done and the second loaded after the first had saved.
C7_WitnessSequential ==
    /\ BothDone /\ Undisturbed /\ ~BothLoadsFirst
    /\ Len(LoadExpenses(file, MaxTime).val) = Len(base) + 2

\* ---------------------------------------------------------------- C3
\* C3: for every store state and every record r with a live category, after
\* add_expense(r) returns, load_expenses returns what it returned before the
\* call followed by r (as the file keeps it) as the last element.
C3_AddAppendsLast ==
    \A e \in Expenses, now \in ClockReads(file) :
        LiveRecord(e) =>
            LET before == LoadExpenses(file, now).val
                r == AddExpense(file, e, now, "none")
            IN /\ ~r.raised
               /\ LoadExpenses(r.file, now).val = before \o <<Persisted(e)>>

\* add_expense has returned on a store that held a record, and the store
\* now holds two.
C3_Witness ==
    /\ last.op = "add_expense" /\ ~last.raised /\ last.had = 1
    /\ Len(LoadExpenses(file, 0).val) = 2

\* ---------------------------------------------------------------- C4
\* C4: save_expenses(S) overwrites without merging: whatever the store held,
\* a load after it returns exactly the records of S with a live category, in
\* the order of S, as the file keeps them.
C4_SaveOverwrites ==
    \A S \in SaveLists, now \in ClockReads(file) :
        LET r == SaveExpenses(file, S, "none")
        IN /\ ~r.raised
           /\ LoadExpenses(r.file, now).val = PersistedAll(SelectSeq(S, LiveRecord))

\* save_expenses has returned on a store that held a record, and the store
\* now holds one row of the list and a TOTAL row that the load leaves out.
C4_Witness ==
    /\ last.op = "save_expenses" /\ ~last.raised /\ last.had >= 1
    /\ Len(file.rows) = 2
    /\ Len(LoadExpenses(file, 0).val) = 1

\* ---------------------------------------------------------------- C5
\* C5: clear_all does what save_expenses of the empty list does: from every
\* store state a load after it returns the empty list, and an add_expense(r)
\* after it leaves the store holding r alone.
C5_ClearAllIsSaveEmpty ==
    \A now \in ClockReads(file) :
        LET c == ClearAll(file, "none")
        IN /\ ~c.raised
           /\ c.file = SaveExpenses(file, <<>>, "none").file
           /\ LoadExpenses(c.file, now).val = <<>>
           /\ \A e \in Expenses :
                LiveRecord(e) =>
                    LoadExpenses(AddExpense(c.file, e, now, "none").file, now).val
                        = <<Persisted(e)>>

\* clear_all has returned on a store that held records, and the store is
\* empty.
C5_Witness ==
    /\ last.op = "clear_all" /\ ~last.raised /\ last.had >= 1
    /\ LoadExpenses(file, 0).val = <<>>

\* ---------------------------------------------------------------- C8
\* C8: read failures degrade to an empty result: load_expenses returns the
\* empty list, without raising, when the file does not exist and when it
\* cannot be read or parsed, and a load leaves the file as it was.
C8_ReadFailuresDegrade ==
    [][/\ \A now \in ClockReads(file) :
            LET l == LoadExpenses(file, now)
            IN /\ ~l.raised
               /\ (file.kind \in {"absent", "unreadable"} \/ LoadTry(file, now).exc)
                     => l.val = <<>>
       /\ last'.op = "load_expenses" => (file' = file /\ ~last'.raised)]_vars

\* An unreadable file has been loaded and the call did not raise.
C8_Witness ==
    /\ last.op = "load_expenses" /\ ~last.raised
    /\ file.kind = "unreadable"

\* ---------------------------------------------------------------- C9
\* C9: write failures propagate: when the write of the file fails,
\* save_expenses raises, and so do add_expense, clear_all and the
\* orchestrator's add_expense, clear_all_expenses and export_to_excel.
C9_WriteFailuresPropagate ==
    \A fault \in Faults \ {"none"}, now \in Times :
        /\ \A S \in SaveLists : SaveExpenses(file, S, fault).raised
        /\ \A e \in Expenses :
              /\ AddExpense(file, e, now, fault).raised
              /\ ControllerAddExpense(file, e, now, fault).raised
        /\ ClearAll(file, fault).raised
        /\ ClearAllExpenses(file, fault).raised
        /\ ExportToExcel(file, file, now, fault, "none").raised
        /\ ExportToExcel(file, Absent, now, fault, "none").raised

\* The orchestrator's add_expense has raised.
C9_Witness ==
    /\ last.op = "ctl.add_expense" /\ last.raised

\* --------------------------------------------------------------- C10
\* C10: save_expenses(load_expenses()) changes nothing a load sees: for
\* every store state, a load after it returns the records, in the order and
\* with the field values, that the load before it returned, and the file
\* written holds no TOTAL row.
C10_ResaveIsIdempotent ==
    \A now \in ClockReads(file) :
        LET l == LoadExpenses(file, now).val
            r == SaveExpenses(file, l, "none")
        IN /\ LoadExpenses(r.file, now).val = l
           /\ \A i \in 1 .. Len(r.file.rows) : ~IsTotalLabel(r.file.rows[i].category)
           /\ SaveExpenses(r.file, LoadExpenses(r.file, now).val, "none").file = r.file

\* What was loaded has been saved on a store that holds two records.
C10_Witness ==
    /\ last.op = "resave" /\ ~last.raised
    /\ Len(LoadExpenses(file, 0).val) = 2

\* ---------------------------------------------------------------- C11
\* C11: for every list S of records with a live category, load_expenses
\* after save_expenses(S) returns Len(S) records in the same order, each
\* with the category, amount and notes that were saved, the empty notes
\* included, and with the saved date at the granularity of a day.
C11_SaveLoadPreservesFields ==
    \A S \in SaveLists :
        (\A i \in 1 .. Len(S) : LiveRecord(S[i])) =>
            LET l == LoadExpenses(SaveExpenses(file, S, "none").file, MaxTime).val
            IN /\ Len(l) = Len(S)
               /\ \A i \in 1 .. Len(S) :
                      /\ l[i].category = S[i].category
                      /\ l[i].amount = S[i].amount
                      /\ l[i].notes = S[i].notes
                      /\ l[i].date \div 2 = S[i].date \div 2

\* ---------------------------------------------------------------- C12
\* File x is what an export at time now writes for the records l: their
\* rows in order, then one TOTAL row carrying the sum of the amounts above.
IsExportOf(x, l, now) ==
    LET n == Len(x.rows)
    IN /\ x.kind = "sheet"
       /\ n = Len(l) + 1
       /\ \A i \in 1 .. Len(l) : RowMatches(l[i], x.rows[i])
       /\ TotalRowsOf(x) = {n}
       /\ x.rows[n].category = "TOTAL"
       /\ x.rows[n].amount = RowAmounts(SubSeq(x.rows, 1, n - 1))
       /\ x.rows[n].date = YmdCell(now \div 2)

C12_WitnessEmptyStore ==
    /\ last.op = "ctl.export_to_excel(other)" /\ ~last.raised
    /\ last.had = 0
    /\ Len(exportFile.rows) = 1

\* ---------------------------------------------------------------- C13
\* C13: add_expense(text, category, manual_amount, manual_date) returns a
\* record whose amount is manual_amount whenever one is given, 0 included,
\* and the amount parsed from text otherwise; whose date is manual_date
\* whenever one is given and the date parsed from text otherwise; whose
\* category is the one given and whose notes are text.  The record returned
\* is the one appended to the store, as its last record.
C13_AddBuildsAndAppendsRecord ==
    (last.op = "ctl.add_expense(text)" /\ ~last.raised) =>
        LET a == last.args
            r == last.ret
            l == LoadExpenses(file, MaxTime).val
        IN /\ r.amount = (IF a.manual_amount = NoneVal THEN ParseAmount(a.text)
                          ELSE a.manual_amount.val)
           /\ r.date = (IF a.manual_date = NoneVal
                        THEN ParseDate(a.text, last.now, NoneVal, last.general)
                        ELSE a.manual_date.val)
           /\ r.category = a.category
           /\ r.notes = a.text
           /\ Len(l) = last.had + 1
           /\ l[Len(l)] = Persisted(r)

\* add_expense has returned for a text that parses to a positive amount and
\* a manual amount of 0, and the record it returned carries 0.
C13_Witness ==
    /\ last.op = "ctl.add_expense(text)" /\ ~last.raised
    /\ last.args.manual_amount = Some(0)
    /\ ParseAmount(last.args.text) > 0
    /\ last.ret.amount = 0
    /\ Len(file.rows) = 2

\* ---------------------------------------------------------------- C14
NoNegativeAmount(f) == \A i \in 1 .. Len(f.rows) : f.rows[i].amount >= 0

ExtractorNeverNegative == \A t \in Texts : ParseAmount(t) >= 0

\* C14 as claimed: after any sequence of add-expense operations, with parsed
\* or manually overridden amounts, no stored record has a negative amount,
\* and the amount extractor never returns a negative value.
C14_NoStoredAmountNegative == NoNegativeAmount(file) /\ ExtractorNeverNegative

\* The step is one in which the amount stored was parsed, or was given and
\* is not negative, or came through the entry form.
AmountGuarded ==
    \/ last'.op \in {"ui.submit refused", "ui.submit failed", "ui.submit saved"}
    \/ last'.op = "ctl.clear_all_expenses"
    \/ /\ last'.op = "ctl.add_expense(text)"
       /\ last'.args.manual_amount.some => last'.args.manual_amount.val >= 0

\* C14 as amended: the amount extractor never returns a negative value, and
\* an add-expense operation whose amount is parsed, or is given and is not
\* negative, or is entered through the form (which refuses 0 and less),
\* stores no negative amount; add_expense itself stores a negative
\* manual_amount as given.
C14_NoNegativeUnlessGiven ==
    [][/\ ExtractorNeverNegative
       /\ (AmountGuarded /\ NoNegativeAmount(file)) => NoNegativeAmount(file')]_vars

\* The form has saved an expense in a store that held one already, after a
\* text with a minus sign was parsed to a positive amount.
C14_Witness ==
    /\ last.op = "ui.submit saved"
    /\ last.had = 1
    /\ Len(file.rows) = 2
    /\ NoNegativeAmount(file)
    /\ ParseAmount("-4") = 400

\* ---------------------------------------------------------------- C16
\* Where category c is first met in list s.
FirstIndex(s, c) == CHOOSE i \in 1 .. Len(s) :
                        /\ s[i].category = c
                        /\ \A k \in 1 .. i - 1 : s[k].category # c

RECURSIVE FoldAmounts(_, _)
FoldAmounts(acc, s) ==
    IF s = <<>> THEN acc ELSE FoldAmounts(FAdd(acc, s[1].amount), Tail(s))

CategoriesOf(s) == {s[i].category : i \in 1 .. Len(s)}

\* C17: calculate_category_totals answers with exactly one entry for each
\* distinct category of the input, none for the empty input; its total is the
\* sum of the amounts of the input's records of the category and its count
\* their number.  A second call on the same list answers the same, and the
\* list is as it was.
C17_OneTotalPerCategory ==
    /\ LET s == last.expenses
           r == CalculateCategoryTotals(s)
       IN /\ Len(r) = Cardinality(CategoriesOf(s))
          /\ {r[i].category : i \in 1 .. Len(r)} = CategoriesOf(s)
          /\ \A i \in 1 .. Len(r) :
                 LET mine == SelectSeq(s, LAMBDA e : e.category = r[i].category)
                 IN /\ r[i].total = FoldAmounts(0, mine)
                    /\ r[i].count = Len(mine)
          /\ (s = <<>>) => (r = <<>>)
          /\ last.op = "calculate_category_totals" => last.result = r

\* The totals of a list of three records in two categories have been
\* calculated: two entries, one of them counting two records.
C17_Witness ==
    /\ last.op = "calculate_category_totals"
    /\ Len(last.expenses) = 3
    /\ Len(last.result) = 2
    /\ \E i \in 1 .. 2 : last.result[i].count = 2 /\ last.result[i].total = 3

\* The totals of the empty list have been calculated: no entry.
C17_WitnessEmpty ==
    /\ last.op = "calculate_category_totals"
    /\ last.expenses = <<>>
    /\ last.result = <<>>

\* ---------------------------------------------------------------- C18
\* Sequence r is s with the records left out whose date is before lo or
\* after hi, the others in their order.
RECURSIVE IsFiltered(_, _, _, _)
IsFiltered(r, s, lo, hi) ==
    IF s = <<>> THEN r = <<>>
    ELSE IF lo <= s[1].date /\ s[1].date <= hi
         THEN r # <<>> /\ r[1] = s[1] /\ IsFiltered(Tail(r), Tail(s), lo, hi)
         ELSE IsFiltered(r, Tail(s), lo, hi)

\* C18: filter_by_date_range(records, start, end) answers with exactly the
\* records whose date d satisfies start <= d <= end, both ends included, in
\* their original order; with the empty list when none does or when start
\* is after end.
C18_FilterInclusive ==
    \A start_date \in Times, end_date \in Times :
        LET s == last.expenses
            r == FilterByDateRange(s, start_date, end_date)
            InRange(e) == start_date <= e.date /\ e.date <= end_date
        IN /\ IsFiltered(r, s, start_date, end_date)
           /\ (start_date > end_date) => (r = <<>>)
           /\ (\A i \in 1 .. Len(s) : ~InRange(s[i])) => (r = <<>>)
           /\ (last.op = "filter_by_date_range" /\ last.args = <<start_date, end_date>>)
                  => last.result = r

\* A list whose records bear the start date, the end date and a date
\* outside the range has been filtered: the two at the ends were kept.
C18_Witness ==
    /\ last.op = "filter_by_date_range"
    /\ last.args = <<1, MaxTime>>
    /\ Len(last.expenses) = 3
    /\ last.expenses[1].date = MaxTime
    /\ last.expenses[2].date = 0
    /\ last.expenses[3].date = 1
    /\ last.result = <<last.expenses[1], last.expenses[3]>>

\* ---------------------------------------------------------------- C15
\* The totals of the entries added up from the left, as floats.
RECURSIVE FoldTotals(_, _)
FoldTotals(acc, r) ==
    IF r = <<>> THEN acc ELSE FoldTotals(FAdd(acc, r[1].total), Tail(r))

RECURSIVE SumCounts(_)
SumCounts(r) == IF r = <<>> THEN 0 ELSE r[1].count + SumCounts(Tail(r))

\* The amounts of the list added up as whole numbers.
RECURSIVE ExactSum(_)
ExactSum(s) == IF s = <<>> THEN 0 ELSE s[1].amount + ExactSum(Tail(s))

\* The dashboard of file f shows the records load_expenses returns, their
\* number, the sum of their amounts and category counts that add up to
\* their number.
DashboardAgrees(f, now) ==
    LET l == LoadExpenses(f, now).val
        d == GetDashboardData(f, now)
    IN /\ d.expenses = l
       /\ d.expense_count = Len(l)
       /\ d.total_spending = FoldAmounts(0, l)
       /\ (l = <<>>) => (d.total_spending = 0)
       /\ SumCounts(d.category_totals) = d.expense_count

\* C15 as claimed: after any sequence of add_expense and clear_all_expenses
\* calls, get_dashboard_data returns the records of load_expenses, their
\* number as expense_count, the sum of their amounts as total_spending (0
\* when there are none), and category_totals whose totals add up to
\* total_spending and whose counts add up to expense_count.
C15_DashboardTotalsAddUp ==
    \A now \in ClockReads(file) :
        /\ DashboardAgrees(file, now)
        /\ LET d == GetDashboardData(file, now)
           IN FoldTotals(0, d.category_totals) = d.total_spending

\* C15 as amended: the same, the totals of category_totals adding up to
\* total_spending when the amounts add without rounding; amounts are
\* floats, and when an addition rounds, the sum by category can differ
\* from the sum in record order.
C15_DashboardTotalsAddUpWhenExact ==
    \A now \in ClockReads(file) :
        /\ DashboardAgrees(file, now)
        /\ LET d == GetDashboardData(file, now)
           IN ExactSum(d.expenses) <= BigAmount =>
                  FoldTotals(0, d.category_totals) = d.total_spending

\* The dashboard has been read on a store of three records in two
\* categories whose amounts add without rounding.
C15_Witness ==
    /\ last.op = "ctl.get_dashboard_data"
    /\ last.had = 3
    /\ LET d == GetDashboardData(file, MaxTime)
       IN /\ Len(d.category_totals) = 2
          /\ d.total_spending = 4
          /\ d.expense_count = 3

\* ---------------------------------------------------------------- C19
\* s[i .. e] is a number: digits, then nothing or a point and one or two
\* digits.
IsNumeral(s, i, e) ==
    /\ 1 <= i /\ i <= e /\ e <= Len(s)
    /\ \E j \in i .. e :
           /\ \A k \in i .. j : s[k] \in Digits
           /\ \/ e = j
              \/ /\ e \in {j + 2, j + 3}
                 /\ s[j + 1] = "."
                 /\ \A k \in j + 2 .. e : s[k] \in Digits

\* The value of the number s[i .. e], in hundredths.
NumeralValue(s, i, e) ==
    LET j == CHOOSE k \in i .. e :
                 /\ \A m \in i .. k : s[m] \in Digits
                 /\ k = e \/ s[k + 1] = "."
    IN DigitsValue(s, i, j) * 100
         + (IF e = j + 2 THEN DigitVal(s[e]) * 10
            ELSE IF e = j + 3 THEN DigitVal(s[j + 2]) * 10 + DigitVal(s[e])
            ELSE 0)

\* The numbers anywhere in s, as pairs of first and last position.
Numerals(s) == {ie \in (1 .. Len(s)) \X (1 .. Len(s)) : IsNumeral(s, ie[1], ie[2])}

\* The numbers of s that stand between word boundaries.
Delimited(s) == {ie \in Numerals(s) : Boundary(s, ie[1]) /\ Boundary(s, ie[2] + 1)}

\* The leftmost of the delimited numbers, and the longest of those that
\* start there.
FirstDelimited(s) ==
    CHOOSE ie \in Delimited(s) :
        \A other \in Delimited(s) :
            \/ ie[1] < other[1]
            \/ ie[1] = other[1] /\ ie[2] >= other[2]

\* C19 as claimed: for every text that contains a number (a whole number,
\* then nothing or a point and one or two digits, with or without '$'), the
\* amount extractor returns that number, commas removed before matching,
\* wherever the number sits in the text, next to letters or followed by
\* further digits included.
C19_ExtractsNumberAnywhere ==
    LET s == TextClean(Chars(last.text))
    IN Numerals(s) # {} =>
           \E ie \in Numerals(s) : ParseAmount(last.text) = NumeralValue(s, ie[1], ie[2])

\* C19 as amended: for every text in which, commas and '$' removed, a number
\* stands between word boundaries, the amount extractor returns the leftmost
\* such number, with the longest of two, one or no decimals that ends at a
\* boundary; a number directly next to a letter, an underscore or a further
\* digit is not matched, and a text without a delimited number gets the
\* answer of the word-number fallback, 0 when that finds none.
C19_ExtractsDelimitedNumber ==
    /\ LET s == TextClean(Chars(last.text))
           w == WordToNum(s)
       IN ParseAmount(last.text) =
              (IF Delimited(s) # {}
               THEN NumeralValue(s, FirstDelimited(s)[1], FirstDelimited(s)[2])
               ELSE IF w.exc THEN 0 ELSE w.val)
    /\ last.op = "parse_amount" => last.result = ParseAmount(last.text)
    /\ ParseAmount("$1,234.56") = 123456

\* "$1,234.56" has been parsed: 1234.56.
C19_Witness ==
    /\ last.op = "parse_amount"
    /\ last.text = "$1,234.56"
    /\ last.result = 123456

\* A text whose only number is glued to a letter has been parsed: 0.
C19_WitnessGlued ==
    /\ last.op = "parse_amount"
    /\ last.text = "a12"
    /\ last.result = 0

\* ---------------------------------------------------------------- C20
\* C20: when the text holds several numeric tokens, the amount extractor
\* returns the first in reading order, even if a later one is the one
\* written with '$': "5 for $50" gives 5, "25 and 30" gives 25.
C20_FirstNumberWins ==
    /\ LET s == TextClean(Chars(last.text))
           starts == {ie[1] : ie \in Delimited(s)}
       IN Cardinality(starts) >= 2 =>
              /\ FirstDelimited(s)[1] = SearchStart(s)
              /\ \A k \in starts : SearchStart(s) <= k
              /\ ParseAmount(last.text)
                     = NumeralValue(s, FirstDelimited(s)[1], FirstDelimited(s)[2])
    /\ ParseAmount("5 for $50") = 500
    /\ ParseAmount("25 and 30") = 2500

\* A text with two numbers, the second with '$', has been parsed: the first.
C20_Witness ==
    /\ last.op = "parse_amount"
    /\ last.text = "5 for $50"
    /\ last.result = 500
    /\ Cardinality({ie[1] : ie \in Delimited(TextClean(Chars(last.text)))}) = 2

\* ---------------------------------------------------------------- C21
\* The text holds a number word of w2n's table.
HasNumberWord(s) ==
    LET words == SplitWords(s, 1, <<>>)
    IN \E i \in 1 .. Len(words) : NumberWord(words[i]) >= 0

\* C21: the word-to-number lookup is called only when the numeric pattern
\* matches nowhere; a text with no numeric substring and a number word or
\* phrase, in any letter case, gets the value of the words ("twenty dollars"
\* 20, "twenty five dollars" 25); a text with a numeric token and number
\* words gets the numeric token.
C21_WordsOnlyWithoutNumber ==
    /\ LET s == TextClean(Chars(last.text))
           run == ParseAmountRun(last.text)
       IN /\ run.w2n => Delimited(s) = {}
          /\ Delimited(s) # {} =>
                 /\ ~run.w2n
                 /\ run.val = NumeralValue(s, FirstDelimited(s)[1], FirstDelimited(s)[2])
          /\ Numerals(s) = {} /\ HasNumberWord(s) =>
                 /\ run.w2n
                 /\ run.val > 0
                 /\ run.val = WordToNum(s).val
    /\ last.op = "parse_amount" => last.result = ParseAmountRun(last.text).val
    /\ ParseAmount("twenty dollars") = 2000
    /\ ParseAmount("twenty five dollars") = 2500
    /\ ParseAmount("Twenty five") = 2500
    /\ ParseAmount("two 5") = 500

\* A phrase of number words without a digit has been parsed: its value.
C21_Witness ==
    /\ last.op = "parse_amount"
    /\ last.text = "twenty five dollars"
    /\ last.result = 2500
    /\ ParseAmountRun(last.text).w2n

\* A text with a number word and a numeric token has been parsed: the token.
C21_WitnessBoth ==
    /\ last.op = "parse_amount"
    /\ last.text = "two 5"
    /\ last.result = 500
    /\ ~ParseAmountRun(last.text).w2n

\* ---------------------------------------------------------------- C22
\* parse_amount recognises nothing in the input: it is false, it is no text,
\* or it holds neither a delimited number nor a number word.
AmountMiss(t) ==
    \/ Falsy(t)
    \/ ~IsStr(t)
    \/ LET s == TextClean(Chars(t)) IN Delimited(s) = {} /\ ~HasNumberWord(s)

\* parse_date recognises nothing in the input: it is false, it is no text,
\* or it names neither yesterday nor tomorrow and dateparser resolves no
\* date in it, with or without a preference.
DateMiss(g) ==
    \/ Falsy(g.text)
    \/ ~IsStr(g.text)
    \/ /\ DateBranch([i \in 1 .. Len(Chars(g.text)) |-> Lower(Chars(g.text)[i])])
               \notin {"yesterday", "tomorrow"}
       /\ ~g.biased.some
       /\ ~g.general.some

\* The sentinels of a call that has returned.
SentinelOnMiss ==
    /\ last.op = "parse_amount" /\ AmountMiss(last.text) => last.result = 0
    /\ last.op = "parse_date" /\ ~last.raised /\ DateMiss(last) => last.result = last.now

\* C22 as claimed: a parse miss is a sentinel, never an exception: for every
\* input, the empty string, None and a text in which nothing is recognised
\* included, parse_amount returns 0.0 and parse_date returns the current
\* date-time, and neither raises.
C22_ParseMissIsSentinel ==
    /\ last.op \in {"parse_amount", "parse_date"} => ~last.raised
    /\ SentinelOnMiss

\* What does hold: parse_amount never raises, parse_date does not raise for
\* a text or for None, and every miss of a call that returns is answered by
\* the sentinel.
C22_SentinelForTextsAndNone ==
    /\ last.op = "parse_amount" => ~last.raised
    /\ last.op = "parse_date" /\ (IsStr(last.text) \/ Falsy(last.text)) => ~last.raised
    /\ SentinelOnMiss

\* parse_date has been handed a value that is neither false nor a text.
C22_WitnessNotText ==
    /\ last.op = "parse_date"
    /\ last.text = NumberInput
    /\ last.raised

\* ---------------------------------------------------------------- C23
\* The text t, lowered, holds the word w.
Holds(t, w) == Contains([i \in 1 .. Len(Chars(t)) |-> Lower(Chars(t)[i])], w)

\* C23: date extraction takes the first matching branch of a fixed
\* precedence, whatever the letter case: a text with "yesterday" gives now
\* minus one day whatever else it holds, else one with "tomorrow" gives now
\* plus one day, both without a call of the resolver; else one with "last"
\* or "ago" calls the resolver with the preference for the past, else one
\* with "next" calls it with the preference for the future, else the
\* resolver is called without a preference.
C23_BranchPrecedence ==
    LET t == last.text
        run == ParseDateRun(t, last.now, last.biased, last.general)
        y == Holds(t, Yesterday)
        m == Holds(t, Tomorrow)
        p == Holds(t, <<"l", "a", "s", "t">>) \/ Holds(t, <<"a", "g", "o">>)
        n == Holds(t, <<"n", "e", "x", "t">>)
    IN /\ last.op = "parse_date" =>
              last.raised = run.raised /\ (~run.raised => last.result = run.val)
       /\ IsStr(t) /\ ~Falsy(t) =>
              /\ ~run.raised
              /\ y => run.val = last.now - 2 /\ run.calls = <<>>
              /\ ~y /\ m => run.val = last.now + 2 /\ run.calls = <<>>
              /\ ~y /\ ~m /\ p => Len(run.calls) >= 1 /\ run.calls[1] = "past"
              /\ ~y /\ ~m /\ ~p /\ n => Len(run.calls) >= 1 /\ run.calls[1] = "future"
              /\ ~y /\ ~m /\ ~p /\ ~n => run.calls = <<"none">>

\* A text with "tomorrow" before "yesterday" has been parsed: yesterday.
C23_Witness ==
    /\ last.op = "parse_date"
    /\ last.text = "tomorrow yesterday"
    /\ last.result = last.now - 2

\* A text with "next" before "last" has been parsed with the resolver's
\* answer for the past.
C23_WitnessPast ==
    /\ last.op = "parse_date"
    /\ last.text = "next last"
    /\ last.biased.some
    /\ last.result = last.biased.val

\* ---------------------------------------------------------------- C24
\* The call of parse_date that last ran took the "last"/"ago" branch or the
\* "next" branch, and the resolver called with the preference resolved no
\* date.
BiasedResolutionFailed ==
    /\ last.op = "parse_date"
    /\ IsStr(last.text)
    /\ DateBranch([i \in 1 .. Len(Chars(last.text)) |-> Lower(Chars(last.text)[i])])
           \in {"past", "future"}
    /\ last.biased = NoneVal

\* C24 as claimed: in the "last"/"ago" branch and in the "next" branch, when
\* the resolver called with the preference resolves no date the result is
\* today, the instant of the call, whatever the resolver would answer for
\* the same text without a preference.
C24_BiasedFailureGivesToday ==
    BiasedResolutionFailed => last.result = last.now

\* What the code does there: it goes on to the general parsing, and the
\* result is today only when that resolves no date either.
C24_BiasedFailureFallsThrough ==
    BiasedResolutionFailed =>
        last.result = (IF last.general.some THEN last.general.val ELSE last.now)

\* The biased call resolved nothing, the general one a date: that date.
C24_WitnessFallThrough ==
    /\ BiasedResolutionFailed
    /\ last.general.some
    /\ last.result = last.general.val
    /\ last.result # last.now

\* ---------------------------------------------------------------- C25
\* The answer of the parse_expense call that last returned carries the text
\* as given, parse_amount's amount, parse_date's date and a confidence
\* within [0, 1] (in hundredths).
ParsedExpenseCarriesInput ==
    last.op = "parse_expense" /\ ~last.raised =>
        /\ last.result.raw_text = last.text
        /\ last.result.detected_amount = ParseAmount(last.text)
        /\ last.result.detected_date
               = ParseDate(last.text, last.now, last.biased, last.general)
        /\ last.result.confidence \in 0 .. 100

\* C25 as claimed: parse_expense returns the raw text unchanged with the
\* detected amount and date, and a confidence within [0, 1] that is 1.0 when
\* the amount extraction succeeded and 0.5 exactly when it failed.
C25_ConfidenceTracksExtraction ==
    /\ ParsedExpenseCarriesInput
    /\ last.op = "parse_expense" /\ ~last.raised =>
           /\ ~AmountMiss(last.text) => last.result.confidence = 100
           /\ last.result.confidence = 50 <=> AmountMiss(last.text)

\* What the code does: the confidence is 0.5 exactly when the detected
\* amount is 0.0, found or not, and 1.0 otherwise.
C25_ConfidenceTracksZeroAmount ==
    /\ ParsedExpenseCarriesInput
    /\ last.op = "parse_expense" /\ ~last.raised =>
           /\ last.result.confidence \in {50, 100}
           /\ last.result.confidence = 50 <=> last.result.detected_amount = 0

\* An amount of 0 was found in the text, and the confidence is 0.5.
C25_WitnessZeroFound ==
    /\ last.op = "parse_expense"
    /\ last.text = "$0"
    /\ ~AmountMiss(last.text)
    /\ last.result.confidence = 50

\* ---------------------------------------------------------------- C26
\* C26: when the remote query service fails, analyze_expenses does not raise
\* and does not call again: it makes exactly one remote call and returns
\* the failure prefix followed by the error's text; the expense store is as
\* it was before the call.
C26_RemoteFailureIsMessage ==
    last.op = "ai.analyze_expenses" /\ ~last.outcomes[1].ok =>
        /\ ~last.raised
        /\ last.calls = 1
        /\ last.ret = <<"Sorry, I couldn't analyze your expenses: ", last.outcomes[1].text>>
        /\ file = last.before

\* The service failed at the first call and would have answered a second
\* one, over a store that holds a record.
C26_Witness ==
    /\ last.op = "ai.analyze_expenses"
    /\ last.outcomes[1] = RemoteError("Rate limit exceeded")
    /\ last.outcomes[2].ok
    /\ last.had > 0
    /\ last.ret[2] = "Rate limit exceeded"

\* ---------------------------------------------------------------- C27
\* The file exists and a load of it fails inside the try block, at any
\* instant: it is no workbook, or a row cannot be turned into a record.
LoadFails(f) ==
    /\ f.kind # "absent"
    /\ \A now \in Times : LoadTry(f, now).exc

\* The file holds the one row of record e and nothing else.
HoldsOnly(f, e) ==
    /\ f.kind = "sheet"
    /\ Len(f.rows) = 1
    /\ f.rows[1].date = YmdCell(e.date \div 2)
    /\ f.rows[1].category = e.category
    /\ f.rows[1].amount = e.amount
    /\ f.rows[1].notes = e.notes

\* C27: an add_expense(r) issued while the backing file exists but cannot
\* be loaded (an unreadable file, or a single row whose date text is not in
\* YYYY-MM-DD form) overwrites the file with r alone: every row the file
\* held is discarded and the call reports success (its write working; a
\* write that fails raises).
C27_AddOverFailedReadKeepsOnlyNew ==
    /\ LoadFails(file) =>
           \A e \in Expenses, now \in Times :
               LET r == AddExpense(file, e, now, "none")
               IN ~r.raised /\ HoldsOnly(r.file, e)
    /\ (/\ last.op = "add_expense"
        /\ \/ last.before.kind = "unreadable"
           \/ /\ last.before.kind = "sheet"
              /\ Len(last.before.rows) = 1
              /\ last.before.rows[1].date = BadTextCell
              /\ LiveRow(last.before.rows[1])
        /\ ~last.raised)
         => last.had = 0 /\ HoldsOnly(file, last.expense)

\* A file of two rows, the first live with a date text strptime rejects,
\* has been added to: the call returned and the file holds the new row alone.
C27_Witness ==
    /\ last.op = "add_expense" /\ ~last.raised
    /\ last.before.kind = "sheet"
    /\ Len(last.before.rows) = 2
    /\ last.before.rows[1].date = BadTextCell
    /\ LiveRow(last.before.rows[1])
    /\ HoldsOnly(file, last.expense)

\* An unreadable file has been added to: it holds the new row alone.
C27_WitnessUnreadable ==
    /\ last.op = "add_expense" /\ ~last.raised
    /\ last.before.kind = "unreadable"
    /\ HoldsOnly(file, last.expense)

\* ---------------------------------------------------------------- C28
\* Records with no category or with the reserved one, in its letter cases.
UnlistedRecords ==
    {Expense(1, c, 1, "lunch") : c \in {"", "TOTAL", "Total", "total"}}

\* C28: ExpenseController.add_expense does not validate the category: a
\* call with an empty category or with TOTAL in any letter case returns the
\* record without an error (its write working) and writes its row, but the
\* record is in no later load_expenses or get_dashboard_data result, and
\* the next add_expense erases its row from the file; the records stored
\* before are kept.
C28_UnlistedCategoryIsDropped ==
    /\ \A e \in UnlistedRecords, now \in ClockReads(file) :
           LET before == LoadExpenses(file, now).val
               r == ControllerAddExpense(file, e, now, "none")
               rows == r.file.rows
           IN /\ ~r.raised
              /\ r.ret = e
              /\ Len(rows) = Len(before) + 1
              /\ rows[Len(rows)].category = e.category
              /\ rows[Len(rows)].notes = e.notes
              /\ LoadExpenses(r.file, now).val = before
              /\ GetDashboardData(r.file, now).expenses = before
              /\ GetDashboardData(r.file, now).expense_count = Len(before)
              /\ \A e2 \in Expenses :
                     LET r2 == ControllerAddExpense(r.file, e2, now, "none")
                     IN /\ Len(r2.file.rows) = Len(before) + 1
                        /\ \A i \in 1 .. Len(before) :
                               RowMatches(before[i], r2.file.rows[i])
                        /\ r2.file.rows[Len(before) + 1].amount = e2.amount
                        /\ r2.file.rows[Len(before) + 1].category = e2.category
    /\ last.op = "ctl.add_expense" /\ ~last.raised /\ file.kind = "sheet" =>
           /\ Len(file.rows) = last.had + 1
           /\ ~LiveRow(file.rows[Len(file.rows)]) =>
                  \A now \in ClockReads(file) : Held(file, now) = last.had

\* A record with the reserved category has been added to a store that held
\* a record: its row is in the file and the store still reads as one record.
C28_Witness ==
    /\ last.op = "ctl.add_expense" /\ ~last.raised /\ last.had = 1
    /\ file.kind = "sheet"
    /\ Len(file.rows) = 2
    /\ IsTotalLabel(file.rows[2].category)
    /\ Len(LoadExpenses(file, 0).val) = 1

\* ---------------------------------------------------------------- C29
\* C29: the page clears the store only through a confirmation in two steps.
\* In stage "idle" the "Delete All Entries" button moves the stage to
\* "confirm" and leaves the store as it is; in stage "confirm" the "Yes"
\* button calls clear_all_expenses and goes back to "idle", the "Cancel"
\* button goes back to "idle" with the store as it is, and when clearing
\* raises the stage stays "confirm"; the stage is always "idle" or
\* "confirm", and no click that returns empties the store from stage "idle".
C29_ClearNeedsConfirmation ==
    [][/\ clear_stage' \in {"idle", "confirm"}
       /\ last'.op = "ui.delete_all" =>
              clear_stage = "idle" /\ clear_stage' = "confirm" /\ file' = file
       /\ last'.op = "ui.cancel" =>
              clear_stage = "confirm" /\ clear_stage' = "idle" /\ file' = file
       /\ last'.op = "ui.yes" =>
              /\ clear_stage = "confirm"
              /\ clear_stage' = (IF last'.raised THEN "confirm" ELSE "idle")
              /\ ~last'.raised =>
                     file' = ClearAllExpenses(file, "none").file /\ Held(file', MaxTime) = 0
       /\ (~last'.raised /\ Held(file, MaxTime) > 0 /\ Held(file', MaxTime) = 0) =>
              clear_stage = "confirm" /\ last'.op = "ui.yes"]_vars

\* The Yes button has cleared a store that held a record: the stage is idle.
C29_Witness ==
    /\ last.op = "ui.yes" /\ ~last.raised
    /\ last.had > 0
    /\ last.stage = "confirm"
    /\ clear_stage = "idle"
    /\ Held(file, MaxTime) = 0

\* Clearing raised: the stage is still confirm.
C29_WitnessRaised ==
    /\ last.op = "ui.yes" /\ last.raised
    /\ clear_stage = "confirm"

\* ---------------------------------------------------------------- C30
ReadOnlyCalls ==
    {"ctl.get_all_expenses", "ctl.get_dashboard_data",
     "ctl.parse_and_create_expense", "ctl.export_to_excel(other)"}

\* C30: the orchestrator's calls that only read leave the store as it is:
\* for every store state, get_all_expenses, get_dashboard_data,
\* parse_and_create_expense and export_to_excel to a path other than the
\* store's own do not change the store's backing file, and load_expenses
\* returns the same records before and after each of them.
C30_ReadOnlyCallsKeepStore ==
    [][last'.op \in ReadOnlyCalls =>
           /\ file' = file
           /\ \A now \in Times :
                  LoadExpenses(file', now).val = LoadExpenses(file, now).val]_vars

\* An export to another path has returned over a store that holds a record:
\* the export is written and the store reads as before.
C30_Witness ==
    /\ last.op = "ctl.export_to_excel(other)" /\ ~last.raised
    /\ last.had > 0
    /\ exportFile.kind = "sheet"
    /\ Len(exportFile.rows) = last.had + 1
    /\ Held(file, MaxTime) = last.had

====
